---- MODULE Spec2Model ----
(***************************************************************************)
(* Slot-based shared-memory IPC between client processes (libipc.cpp) and  *)
(* one server process (server.cpp): the shared region, the named           *)
(* semaphores, the client library calls, the dispatcher and the two        *)
(* worker pools.                                                           *)
(*                                                                         *)
(* Kernel objects are modelled with their identity: a name (/ipc_shm,      *)
(* /ipc_mutex, ...) is bound to an object, a process holds handles to      *)
(* objects, and an unlinked object lives on for the processes that still   *)
(* hold it.  Server incarnation k creates semaphore set k; the shared      *)
(* memory object it maps is the one the name is bound to when it starts    *)
(* (shm_open with O_CREAT and no O_EXCL), or a new one.                    *)
(*                                                                         *)
(* sem_wait / sem_timedwait succeed when the value is positive; the timed  *)
(* variant times out when it is zero, and a sem_wait of the server's main  *)
(* thread fails with EINTR when a handled signal arrives while it blocks   *)
(* (SigUsr1).                                                              *)
(***************************************************************************)
EXTENDS Integers, Sequences, FiniteSets, TLC

(***************************************************************************)
(* Bounds of the model.  NumSlots, MaxMutexRetries and MaxSlotWaitRetries  *)
(* stand for IPC_MAX_SLOTS (16), kMaxMutexTimeoutRetries (5) and           *)
(* kMaxSlotWaitTimeoutRetries (16) of the source, scaled down.             *)
(***************************************************************************)
NumSlots == 1
NumClients == 2
MaxRequests == 2
MaxInc == 2
MaxMutexRetries == 1
MaxSlotWaitRetries == 2
ThreadsPerPool == 1
MaxSignals == 1
MaxTerms == 1
NumServers == 3
MaxInodes == 3
MaxStarts == 3
MaxLen == 2
MaxSlotRequests == 3

(* Return codes of the library (ipc_defs.h and libipc.cpp). *)
RC_OK == 0
RC_ERR == -1
IPC_NOT_READY == 1
IPC_ERR_SERVER_RESTARTED == -2

VARIABLES
    nslots,     \* IPC_MAX_SLOTS, the number of slots of the region, scaled down
    shm,        \* shm[o]: contents of shared memory object o
    shm_name,   \* the object /ipc_shm is bound to, 0 when unlinked
    sem,        \* sem[k]: values of the semaphores created by incarnation k
    sem_name,   \* per name (mutex, notify, slot): the set it is bound to, 0 when unlinked
    gen_file,   \* the u64 stored in /tmp/ipc_server.generation
    host,       \* /tmp/ipc_server.lock: its inode, the flock holders, the server processes
    srv,        \* the server's main thread: pc, incarnation, handles, flags
    pool,       \* pool[p]: queue_ and stop_ of the math and the string pool
    wk,         \* wk[w]: a worker thread and its locals
    cl,         \* cl[c]: a client process: library globals and the call in progress
    nsub,       \* history: the number of submissions accepted so far
    consumed,   \* history: the (generation, id) pairs ipc_get_result returned 0 for
    args,       \* args[c]: the operands the application of client c passes to the library
    polled,     \* history: (client, id) with an id of the generation before the last
                \* restart that the client has called ipc_get_result with since
    ev          \* the library call that returned in the last step, NoEvent otherwise

Slots == 0 .. (nslots - 1)

(* The slot indices of the largest region a scenario of the model uses. *)
AllSlots == 0 .. NumSlots
Clients == 1 .. NumClients
Incs == 1 .. MaxInc
Pools == {"math", "string"}
Servers == 1 .. NumServers
Inodes == 1 .. MaxInodes
Workers == Pools \X (1 .. ThreadsPerPool)

MathCmds == {"ADD", "SUB", "MUL", "DIV"}
StringCmds == {"CONCAT", "SEARCH"}

(* The calls the clients of the model make. *)
BlockingCmds == {"ADD"}
AsyncCmds == {"MUL", "CONCAT"}

(***************************************************************************)
(* Two's complement arithmetic of process_math.  IntHalf stands for 2^31:   *)
(* the int32_t range is scaled down to -IntHalf .. IntHalf - 1.            *)
(***************************************************************************)
IntHalf == 128

Wrap32(x) == ((x + IntHalf) % (2 * IntHalf)) - IntHalf

TruncDiv(a, b) ==
    IF (a >= 0) = (b > 0)
    THEN (IF a >= 0 THEN a ELSE -a) \div (IF b > 0 THEN b ELSE -b)
    ELSE -((IF a >= 0 THEN a ELSE -a) \div (IF b > 0 THEN b ELSE -b))

MathResult(cmd, a, b) ==
    CASE cmd = "ADD" -> Wrap32(a + b)
      [] cmd = "SUB" -> Wrap32(a - b)
      [] cmd = "MUL" -> Wrap32(a * b)
      [] cmd = "DIV" -> IF b = 0 THEN 0 ELSE Wrap32(TruncDiv(a, b))
      [] OTHER -> 0

MathStatus(cmd, a, b) ==
    CASE cmd = "DIV" /\ b = 0 -> "DIV_BY_ZERO"
      [] cmd \in MathCmds -> "OK"
      [] OTHER -> "INVALID_INPUT"

(* The values of int32_t. *)
Int32 == -IntHalf .. IntHalf - 1

(* The value of the C expression a + b, a - b, a * b, a / b over the integers. *)
MathExact(cmd, a, b) ==
    CASE cmd = "ADD" -> a + b
      [] cmd = "SUB" -> a - b
      [] cmd = "MUL" -> a * b
      [] cmd = "DIV" -> IF b = 0 THEN 0 ELSE TruncDiv(a, b)
      [] OTHER -> 0

(* The expression process_math evaluates has no int32_t value: signed       *)
(* overflow of +, - and *, and INT_MIN / -1.  The behaviour is undefined.   *)
(* The builds of the project (Debug, Release, RelWithDebInfo, sanitizers    *)
(* that report and go on) compile +, - and * to add, sub and imul, which    *)
(* leave the wrapped value.  The division either leaves the wrapped value   *)
(* (sdiv on aarch64) or raises SIGFPE (idiv on x86), for which the server   *)
(* has no handler.                                                          *)
Overflows(cmd, a, b) == cmd \in MathCmds /\ MathExact(cmd, a, b) \notin Int32

(***************************************************************************)
(* process_string: CONCAT and SEARCH on bounded strings (sequences).       *)
(***************************************************************************)
IPC_MAX_STRING_LEN == 16
IPC_MAX_RESULT_LEN == 33

OccursAt(h, n, i) ==
    /\ i + Len(n) <= Len(h)
    /\ \A k \in 1 .. Len(n) : h[i + k] = n[k]

(* A search that returns the last occurrence. *)
StrStrLast(h, n) ==
    LET hits == {i \in 0 .. Len(h) : OccursAt(h, n, i)}
    IN  IF hits = {} THEN -1
        ELSE CHOOSE i \in hits : \A j \in hits : i >= j

(* strstr(h, n): the offset of the first occurrence, -1 for a null result. *)
StrStr(h, n) ==
    LET hits == {i \in 0 .. Len(h) : OccursAt(h, n, i)}
    IN  IF hits = {} THEN -1
        ELSE CHOOSE i \in hits : \A j \in hits : i <= j

(* strncpy(dst, s, n) followed by dst[IPC_MAX_STRING_LEN] = 0, read back as a *)
(* C string: at most n characters of s, and never more than the array holds. *)
StrNCpy(s, n) ==
    LET k == IF n < IPC_MAX_STRING_LEN THEN n ELSE IPC_MAX_STRING_LEN
    IN  SubSeq(s, 1, IF Len(s) < k THEN Len(s) ELSE k)

BadLen(s) == Len(s) < 1 \/ Len(s) > IPC_MAX_STRING_LEN

StringStatus(cmd, s1, s2) ==
    CASE BadLen(s1) \/ BadLen(s2) -> "STR_TOO_LONG"
      [] cmd = "CONCAT" ->
            IF Len(s1) + Len(s2) > IPC_MAX_RESULT_LEN - 1
            THEN "STR_TOO_LONG" ELSE "OK"
      [] cmd = "SEARCH" -> IF StrStr(s1, s2) = -1 THEN "NOT_FOUND" ELSE "OK"
      [] OTHER -> "INVALID_INPUT"

(* The response union after memset(&resp, 0) and the command's write. *)
StringResponse(cmd, s1, s2) ==
    CASE BadLen(s1) \/ BadLen(s2) -> [num |-> 0, str |-> <<>>]
      [] cmd = "CONCAT" ->
            IF Len(s1) + Len(s2) > IPC_MAX_RESULT_LEN - 1
            THEN [num |-> 0, str |-> <<>>]
            ELSE [num |-> 0, str |-> s1 \o s2]
      [] cmd = "SEARCH" -> [num |-> StrStr(s1, s2), str |-> <<>>]
      [] OTHER -> [num |-> 0, str |-> <<>>]

(***************************************************************************)
(* The shared region (SharedMemoryLayout) and the semaphores.              *)
(***************************************************************************)
ZeroSlot ==
    [state |-> "FREE", request_id |-> 0, client_pid |-> 0, command |-> "ADD",
     a |-> 0, b |-> 0, s1 |-> <<>>, s2 |-> <<>>,
     response |-> [num |-> 0, str |-> <<>>], status |-> "OK"]

ZeroRegion ==
    [server_generation |-> 0, next_request_id |-> 0,
     slots |-> [i \in Slots |-> ZeroSlot]]

(* holders is bookkeeping, not program state: the processes that are between  *)
(* a successful wait on the mutex and their next post of it.                  *)
NoSems == [mutex |-> 0, notify |-> 0, slot |-> [i \in Slots |-> 0], holders |-> {}]


vars == <<nslots, shm, shm_name, sem, sem_name, gen_file, host, srv, pool, wk, cl, nsub,
          consumed, args, polled, ev>>

(* The operands the applications of the model pass unless a scenario draws  *)
(* them: distinct per client and per command result.                        *)
DefaultArgs ==
    [c \in Clients |-> [a |-> 10 * c, b |-> 1, s1 |-> <<c>>, s2 |-> <<c + NumClients>>]]

(* Operands of client c. *)
OperandA(c) == args[c].a
OperandB(c) == args[c].b
OperandS1(c) == args[c].s1
OperandS2(c) == args[c].s2


(***************************************************************************)
(* Small helpers on the shared state.                                      *)
(***************************************************************************)
(* A post that adds two to the semaphore. *)
SemPostTwice(k, which) == [sem EXCEPT ![k][which] = @ + 2]

SemPost(k, which) == [sem EXCEPT ![k][which] = @ + 1]

SemTake(k, which) == [sem EXCEPT ![k][which] = @ - 1]

(* Process names: <<"client", pid>>, <<"dispatcher", 0>>, <<pool, thread>>. *)
ClientProc(c) == <<"client", c>>

Dispatcher == <<"dispatcher", 0>>

(* sem_wait / sem_timedwait on the mutex of set k returns 0 in process p. *)
MutexWait(k, p) == [sem EXCEPT ![k].mutex = @ - 1, ![k].holders = @ \cup {p}]

(* A path that leaves its critical section without posting the mutex. *)
MutexPostSkipped(k, p) == sem

(* sem_post(g_mutex_sem) by process p. *)
MutexPost(k, p) == [sem EXCEPT ![k].mutex = @ + 1, ![k].holders = @ \ {p}]

(* A post on the semaphore of the slot after slot i. *)
SlotSemPostNext(k, i) == [sem EXCEPT ![k].slot[(i + 1) % nslots] = @ + 1]

SlotSemPost(k, i) == [sem EXCEPT ![k].slot[i] = @ + 1]

SlotSemTake(k, i) == [sem EXCEPT ![k].slot[i] = @ - 1]

NoResponse == [num |-> 0, str |-> <<>>]

NoEvent == [pid |-> 0, op |-> "none", id |-> 0, rc |-> 0,
            out |-> NoResponse, status |-> "OK"]

(***************************************************************************)
(* Client library (libipc.cpp).  lib is the per-process global state:      *)
(* g_shm / g_shm_fd (the mapped object, 0 for nullptr), the semaphore      *)
(* handles and g_known_generation.                                         *)
(***************************************************************************)
NullLib == [shm |-> 0, gen |-> 0, mutex |-> 0, notify |-> 0, slotsem |-> 0]

(***************************************************************************)
(* The interactive client (client1.cpp) around the library: the vector     *)
(* pending of the asynchronous requests not yet answered and the position  *)
(* of main's loop.  An entry holds the request id; gen is bookkeeping, the *)
(* generation the library was connected to when the id was returned.       *)
(* pc is "off" for a process that calls the library directly.              *)
(***************************************************************************)
NoApp == [pc |-> "off", pending |-> <<>>, it |-> 0]

MenuApp == [pc |-> "top", pending |-> <<>>, it |-> 0]

(* pending.erase(it) *)
Erase(pending, it) == [n \in 1 .. (Len(pending) - 1) |->
                          IF n < it THEN pending[n] ELSE pending[n + 1]]

(* The loop over pending goes on at position it, or is over: back to main's loop. *)
LoopAt(app, pending, it) ==
    IF it > Len(pending)
    THEN [pc |-> "top", pending |-> pending, it |-> 0]
    ELSE [pc |-> app.pc, pending |-> pending, it |-> it]

(* retry_pending_after_restart: every id is set to 0, then the entries are    *)
(* re-submitted one by one from the first.                                    *)
retry_pending_after_restart(app) ==
    [pc |-> "retry", pending |-> [n \in 1 .. Len(app.pending) |-> [id |-> 0, gen |-> 0]],
     it |-> 1]

(* main, case 2: ipc_multiply has returned rc. *)
AfterSubmit(app, lib, id, rc) ==
    IF rc = RC_OK
    THEN [app EXCEPT !.pc = "top", !.pending = Append(@, [id |-> id, gen |-> lib.gen])]
    ELSE [app EXCEPT !.pc = "top"]

(* pre_menu_restart_probe: ipc_get_result(0, ...) has returned rc. *)
AfterProbe(app, rc) ==
    IF rc = IPC_ERR_SERVER_RESTARTED
    THEN IF app.pending = <<>> THEN app ELSE retry_pending_after_restart(app)
    ELSE [app EXCEPT !.pc = "menu"]

(* resubmit_pending of the entry at it has returned rc, in check_pending    *)
(* (the entry's id is 0) or in the loop of retry_pending_after_restart.      *)
AfterResubmit(app, lib, id, rc) ==
    IF rc = RC_OK
    THEN LoopAt(app, [app.pending EXCEPT ![app.it] = [id |-> id, gen |-> lib.gen]],
                app.it + 1)
    ELSE IF rc = IPC_ERR_SERVER_RESTARTED
    THEN IF app.pc = "retry"
         THEN [pc |-> "top", pending |-> app.pending, it |-> 0]
         ELSE LoopAt(app, app.pending, app.it + 1)
    ELSE LoopAt(app, Erase(app.pending, app.it), app.it)

(* check_pending: ipc_get_result(it->id, ...) has returned rc. *)
AfterPoll(app, rc) ==
    IF rc = IPC_NOT_READY THEN LoopAt(app, app.pending, app.it + 1)
    ELSE IF rc = IPC_ERR_SERVER_RESTARTED THEN retry_pending_after_restart(app)
    ELSE LoopAt(app, Erase(app.pending, app.it), app.it)

(* What the application does with the return value rc of the call it made. *)
AppReturn(call, lib, rc) ==
    LET app == call.app
    IN  CASE app.pc = "top" /\ call.op = "get" -> AfterProbe(app, rc)
          [] app.pc = "menu" /\ call.op = "async" -> AfterSubmit(app, lib, call.id, rc)
          [] app.pc = "check" /\ call.op = "get" -> AfterPoll(app, rc)
          [] app.pc \in {"check", "retry"} /\ call.op = "async" ->
                AfterResubmit(app, lib, call.id, rc)
          [] OTHER -> app

IdleClient(lib) ==
    [lib |-> lib, pc |-> "idle", op |-> "none", cmd |-> "ADD", id |-> 0,
     slot_idx |-> -1, retries |-> 0, mretries |-> 0, app |-> NoApp]

(* ipc_init: shm_open + mmap, sem_open of every semaphore, cache the generation. *)
ipc_init ==
    IF shm_name # 0 /\ sem_name.mutex # 0 /\ sem_name.notify # 0 /\ sem_name.slot # 0
    THEN [rc |-> RC_OK,
          lib |-> [shm |-> shm_name, gen |-> shm[shm_name].server_generation,
                   mutex |-> sem_name.mutex, notify |-> sem_name.notify,
                   slotsem |-> sem_name.slot]]
    ELSE [rc |-> RC_ERR, lib |-> NullLib]

(* A reconnect that reports a restart whether or not ipc_init succeeded. *)
reconnect_reports_restart == [rc |-> IPC_ERR_SERVER_RESTARTED, lib |-> ipc_init.lib]

(* reconnect_after_server_restart: ipc_cleanup, then ipc_init. *)
reconnect_after_server_restart ==
    IF ipc_init.rc = RC_OK
    THEN [rc |-> IPC_ERR_SERVER_RESTARTED, lib |-> ipc_init.lib]
    ELSE [rc |-> RC_ERR, lib |-> NullLib]

(* shm_object_replaced: the name resolves to another object than the one mapped. *)
shm_object_replaced(lib) == lib.shm # 0 /\ shm_name # 0 /\ shm_name # lib.shm

ensure_fresh_connection(lib) ==
    IF lib.shm = 0 THEN [rc |-> RC_ERR, lib |-> lib]
    ELSE IF shm_object_replaced(lib) THEN reconnect_after_server_restart
    ELSE IF shm[lib.shm].server_generation # lib.gen THEN reconnect_after_server_restart
    ELSE [rc |-> RC_OK, lib |-> lib]

(* A scan that takes any slot no worker is processing. *)
find_unprocessed_slot(region) ==
    LET free == {i \in Slots : region.slots[i].state # "PROCESSING"}
    IN  IF free = {} THEN -1
        ELSE CHOOSE i \in free : \A j \in free : i <= j

(* A scan in descending index order. *)
find_last_free_slot(region) ==
    LET free == {i \in Slots : region.slots[i].state = "FREE"}
    IN  IF free = {} THEN -1
        ELSE CHOOSE i \in free : \A j \in free : i >= j

find_free_slot(region) ==
    LET free == {i \in Slots : region.slots[i].state = "FREE"}
    IN  IF free = {} THEN -1
        ELSE CHOOSE i \in free : \A j \in free : i <= j

(* The slot ipc_get_result's ascending scan stops at, -1 when no id matches. *)
find_request_slot(region, id) ==
    LET hits == {i \in Slots : region.slots[i].request_id = id}
    IN  IF hits = {} THEN -1
        ELSE CHOOSE i \in hits : \A j \in hits : i <= j

(* The call of client c goes on with its record changed to rec. *)
Goes(rec) == [cl |-> rec, ev |-> NoEvent]

(* The call of client c returns rc (and, on success, a payload) to the application. *)
ReturnsWith(c, call, lib, rc, out, status) ==
    [cl |-> [IdleClient(lib) EXCEPT !.app = AppReturn(call, lib, rc)],
     ev |-> [pid |-> c, op |-> call.op, id |-> call.id, rc |-> rc,
             out |-> out, status |-> status]]

Returns(c, lib, rc) == ReturnsWith(c, cl[c], lib, rc, NoResponse, "OK")

LockPcs == {"sub_lock", "blk_lock", "get_lock"}

(***************************************************************************)
(* submit_request, entered from blocking_math / async_math / async_string. *)
(* The call starts with ensure_fresh_connection.                           *)
(***************************************************************************)
CallSubmitUpTo(c, op, cmd, budget) ==
    /\ cl[c].pc = "idle"
    /\ nsub < budget
    /\ LET r == ensure_fresh_connection(cl[c].lib)
           call == [cl[c] EXCEPT !.op = op, !.cmd = cmd]
           x == IF r.rc # RC_OK
                THEN ReturnsWith(c, call, r.lib, r.rc, NoResponse, "OK")
                ELSE Goes([call EXCEPT !.pc = "sub_lock"])
       IN  cl' = [cl EXCEPT ![c] = x.cl] /\ ev' = x.ev
    /\ UNCHANGED <<args, nslots, shm, shm_name, sem, sem_name, gen_file, host, srv, pool, wk,
                   nsub, consumed, polled>>

CallSubmit(c, op, cmd) == CallSubmitUpTo(c, op, cmd, MaxRequests)

ipc_add(c) == CallSubmit(c, "blocking", "ADD")

ipc_multiply(c) == CallSubmit(c, "async", "MUL")

ipc_concat(c) == CallSubmit(c, "async", "CONCAT")

(* The async call client c makes in the model: the first client multiplies, *)
(* the others concatenate, so both pools get work.                          *)
ipc_async(c) == IF c = 1 THEN ipc_multiply(c) ELSE ipc_concat(c)

(* Bookkeeping: the call ipc_get_result(id) of client c has returned; it is  *)
(* recorded when id is one of the ids issued before the last restart.         *)
NotePoll(c, id, returned) ==
    IF returned /\ id <= srv.old_ids THEN polled \cup {<<c, id>>} ELSE polled

(* ipc_get_result(id): entry and ensure_fresh_connection. *)
ipc_get_result(c, id) ==
    /\ cl[c].pc = "idle"
    /\ LET r == ensure_fresh_connection(cl[c].lib)
           call == [cl[c] EXCEPT !.op = "get", !.id = id]
           x == IF r.rc # RC_OK
                THEN ReturnsWith(c, call, r.lib, r.rc, NoResponse, "OK")
                ELSE Goes([call EXCEPT !.pc = "get_lock"])
       IN  /\ cl' = [cl EXCEPT ![c] = x.cl] /\ ev' = x.ev
           /\ polled' = NotePoll(c, id, r.rc # RC_OK)
    /\ UNCHANGED <<args, nslots, shm, shm_name, sem, sem_name, gen_file, host, srv, pool, wk,
                   nsub, consumed>>

(***************************************************************************)
(* The argument checks of the async entry points.  A C string argument is  *)
(* a null pointer or a sequence of characters; request_id is a pointer, 0  *)
(* for null.                                                               *)
(***************************************************************************)
NullStr == [null |-> TRUE, chars |-> <<>>]

CStr(chars) == [null |-> FALSE, chars |-> chars]

(* A string one character longer than the protocol allows. *)
TooLong == CStr([n \in 1 .. (IPC_MAX_STRING_LEN + 1) |-> 1])

(* The two strings a call of client c is made with: its operands, or one of  *)
(* them replaced by a null pointer, an empty or an over-long string.         *)
BadStrings == {NullStr, CStr(<<>>), TooLong}

StringArgs(c) ==
    {<<CStr(OperandS1(c)), CStr(OperandS2(c))>>}
    \cup {<<s, CStr(OperandS2(c))>> : s \in BadStrings}
    \cup {<<CStr(OperandS1(c)), s>> : s \in BadStrings}

Ptrs == {0, 1}

(* A check that accepts every string. *)
validate_nothing(s) == 0

validate_string(s) ==
    IF s.null THEN -1
    ELSE IF Len(s.chars) < 1 \/ Len(s.chars) > IPC_MAX_STRING_LEN THEN -1
    ELSE 0

(* The call returns -1 from its argument checks. *)
RejectCall(c, cmd) ==
    /\ LET x == ReturnsWith(c, [cl[c] EXCEPT !.op = "async", !.cmd = cmd], cl[c].lib,
                            RC_ERR, NoResponse, "OK")
       IN  cl' = [cl EXCEPT ![c] = x.cl] /\ ev' = x.ev
    /\ UNCHANGED <<args, nslots, shm, shm_name, sem, sem_name, gen_file, host, srv, pool, wk,
                   nsub, consumed, polled>>

(* async_math: if (!request_id) return -1; then submit_request. *)
async_math(c, cmd, request_id) ==
    /\ cl[c].pc = "idle"
    /\ IF request_id = 0 THEN RejectCall(c, cmd) ELSE CallSubmit(c, "async", cmd)

(* async_string: the pointer, then validate_string of both strings, then      *)
(* submit_request.                                                            *)
async_string(c, cmd, s1, s2, request_id) ==
    /\ cl[c].pc = "idle"
    /\ IF request_id = 0 \/ validate_string(s1) # 0 \/ validate_string(s2) # 0
       THEN RejectCall(c, cmd)
       ELSE CallSubmit(c, "async", cmd)

(***************************************************************************)
(* lock_shared_mutex_with_recovery: the timed wait succeeds.  The caller   *)
(* (submit_request, ipc_get_result) then compares the header's generation  *)
(* with the cached one; blocking_math's wait loop does not.                *)
(***************************************************************************)
GenerationMatches(lib) == shm[lib.shm].server_generation = lib.gen

AfterLock(c) ==
    CASE cl[c].pc = "blk_lock" -> "blk_cs"
      [] cl[c].pc = "sub_lock" ->
            IF GenerationMatches(cl[c].lib) THEN "sub_cs" ELSE "sub_stale"
      [] cl[c].pc = "get_lock" ->
            IF GenerationMatches(cl[c].lib) THEN "get_cs" ELSE "get_stale"

LockAcquire(c) ==
    /\ cl[c].pc \in LockPcs
    /\ sem[cl[c].lib.mutex].mutex > 0
    /\ sem' = MutexWait(cl[c].lib.mutex, ClientProc(c))
    /\ cl' = [cl EXCEPT ![c].pc = AfterLock(c)]
    /\ ev' = NoEvent
    /\ UNCHANGED <<args, nslots, shm, shm_name, sem_name, gen_file, host, srv, pool, wk, nsub, consumed, polled>>

(* The timed wait times out: ensure_fresh_connection, count, give up at the budget. *)
LockTimeout(c) ==
    /\ cl[c].pc \in LockPcs
    /\ sem[cl[c].lib.mutex].mutex = 0
    /\ LET r == ensure_fresh_connection(cl[c].lib)
           g == reconnect_after_server_restart
           x == IF r.rc # RC_OK THEN Returns(c, r.lib, r.rc)
                ELSE IF cl[c].mretries + 1 >= MaxMutexRetries
                     THEN Returns(c, g.lib, g.rc)
                     ELSE Goes([cl[c] EXCEPT !.mretries = @ + 1])
       IN  /\ cl' = [cl EXCEPT ![c] = x.cl] /\ ev' = x.ev
           /\ polled' = NotePoll(c, cl[c].id, cl[c].op = "get" /\ x.cl.pc = "idle")
    /\ UNCHANGED <<args, nslots, shm, shm_name, sem, sem_name, gen_file, host, srv, pool, wk,
                   nsub, consumed>>

(* Generation mismatch seen under the mutex: post it, reconnect, return. *)
StaleRelease(c) ==
    /\ cl[c].pc \in {"sub_stale", "get_stale"}
    /\ sem' = MutexPost(cl[c].lib.mutex, ClientProc(c))
    /\ LET g == reconnect_after_server_restart
           x == Returns(c, g.lib, g.rc)
       IN  cl' = [cl EXCEPT ![c] = x.cl] /\ ev' = x.ev
    /\ polled' = NotePoll(c, cl[c].id, cl[c].op = "get")
    /\ UNCHANGED <<args, nslots, shm, shm_name, sem_name, gen_file, host, srv, pool, wk, nsub, consumed>>

(***************************************************************************)
(* submit_request under the mutex: find_free_slot, write the request,      *)
(* take next_request_id, post the mutex.                                   *)
(***************************************************************************)
RequestSlot(c, cmd, id) ==
    [state |-> "REQUEST_PENDING", request_id |-> id, client_pid |-> c,
     command |-> cmd,
     a |-> IF cmd \in MathCmds THEN OperandA(c) ELSE 0,
     b |-> IF cmd \in MathCmds THEN OperandB(c) ELSE 0,
     s1 |-> IF cmd \in StringCmds
            THEN StrNCpy(OperandS1(c), IPC_MAX_STRING_LEN) ELSE <<>>,
     s2 |-> IF cmd \in StringCmds
            THEN StrNCpy(OperandS2(c), IPC_MAX_STRING_LEN) ELSE <<>>]

(* A submit that marks the slot as already claimed by the dispatcher. *)
WriteRequestClaimed(slot, req) ==
    [slot EXCEPT !.state = "PROCESSING", !.request_id = req.request_id,
                 !.client_pid = req.client_pid, !.command = req.command,
                 !.a = req.a, !.b = req.b, !.s1 = req.s1, !.s2 = req.s2]

(* A submit that gives every request the id 1. *)
WriteRequestIdOne(slot, req) ==
    [slot EXCEPT !.state = req.state, !.request_id = 1,
                 !.client_pid = req.client_pid, !.command = req.command,
                 !.a = req.a, !.b = req.b, !.s1 = req.s1, !.s2 = req.s2]

WriteRequest(slot, req) ==
    [slot EXCEPT !.state = req.state, !.request_id = req.request_id,
                 !.client_pid = req.client_pid, !.command = req.command,
                 !.a = req.a, !.b = req.b, !.s1 = req.s1, !.s2 = req.s2]

SubmitCS(c) ==
    /\ cl[c].pc = "sub_cs"
    /\ LET o == cl[c].lib.shm
           idx == find_free_slot(shm[o])
           id == shm[o].next_request_id
       IN  IF idx < 0
           THEN /\ cl' = [cl EXCEPT ![c] = Returns(c, cl[c].lib, RC_ERR).cl]
                /\ ev' = Returns(c, cl[c].lib, RC_ERR).ev
                /\ UNCHANGED <<shm, nsub>>
           ELSE /\ shm' = [shm EXCEPT
                             ![o].slots[idx] = WriteRequest(@, RequestSlot(c, cl[c].cmd, id)),
                             ![o].next_request_id = @ + 1]
                /\ cl' = [cl EXCEPT ![c].pc = "sub_notify", ![c].slot_idx = idx,
                                    ![c].id = id]
                /\ ev' = NoEvent
                /\ nsub' = nsub + 1
    /\ sem' = MutexPost(cl[c].lib.mutex, ClientProc(c))
    /\ UNCHANGED <<args, nslots, shm_name, sem_name, gen_file, host, srv, pool, wk, consumed, polled>>

(* sem_post(g_server_sem); an async caller returns 0, a blocking one waits. *)
SubmitNotify(c) ==
    /\ cl[c].pc = "sub_notify"
    /\ sem' = SemPost(cl[c].lib.notify, "notify")
    /\ LET x == IF cl[c].op = "blocking"
                THEN Goes([cl[c] EXCEPT !.pc = "blk_wait", !.retries = 0])
                ELSE Returns(c, cl[c].lib, RC_OK)
       IN  cl' = [cl EXCEPT ![c] = x.cl] /\ ev' = x.ev
    /\ UNCHANGED <<args, nslots, shm, shm_name, sem_name, gen_file, host, srv, pool, wk, nsub, consumed, polled>>

(***************************************************************************)
(* blocking_math: the wait loop on the per-slot semaphore.                 *)
(***************************************************************************)
(* A loop that starts its count again instead of leaving. *)
NextRetryAgain(c, n) ==
    Goes([cl[c] EXCEPT !.pc = "blk_wait", !.retries = 0, !.mretries = 0])

(* retries has just been incremented: leave the loop at the budget. *)
NextRetry(c, n) ==
    IF n >= MaxSlotWaitRetries
    THEN Returns(c, reconnect_after_server_restart.lib, reconnect_after_server_restart.rc)
    ELSE Goes([cl[c] EXCEPT !.pc = "blk_wait", !.retries = n, !.mretries = 0])

(* sem_wait_with_timeout(g_slot_sems[slot_idx], 1) == 0 *)
BlockWake(c) ==
    /\ cl[c].pc = "blk_wait"
    /\ sem[cl[c].lib.slotsem].slot[cl[c].slot_idx] > 0
    /\ sem' = SlotSemTake(cl[c].lib.slotsem, cl[c].slot_idx)
    /\ cl' = [cl EXCEPT ![c].pc = "blk_lock", ![c].mretries = 0]
    /\ ev' = NoEvent
    /\ UNCHANGED <<args, nslots, shm, shm_name, sem_name, gen_file, host, srv, pool, wk, nsub, consumed, polled>>

(* errno == ETIMEDOUT *)
BlockTimeout(c) ==
    /\ cl[c].pc = "blk_wait"
    /\ sem[cl[c].lib.slotsem].slot[cl[c].slot_idx] = 0
    /\ LET r == ensure_fresh_connection(cl[c].lib)
           x == IF r.rc # RC_OK THEN Returns(c, r.lib, r.rc)
                ELSE NextRetry(c, cl[c].retries + 1)
       IN  cl' = [cl EXCEPT ![c] = x.cl] /\ ev' = x.ev
    /\ UNCHANGED <<args, nslots, shm, shm_name, sem, sem_name, gen_file, host, srv, pool, wk,
                   nsub, consumed, polled>>

(* A guard that compares the request id only. *)
OwnRequestId(slot, expected_request_id) == slot.request_id = expected_request_id

(* The stale-wake guard of blocking_math. *)
OwnResponseReady(slot, expected_request_id) ==
    slot.request_id = expected_request_id /\ slot.state = "RESPONSE_READY"

(* Under the mutex: consume the slot if it holds this request's response. *)
BlockCS(c) ==
    /\ cl[c].pc = "blk_cs"
    /\ LET o == cl[c].lib.shm
           slot == shm[o].slots[cl[c].slot_idx]
           x == IF OwnResponseReady(slot, cl[c].id)
                THEN ReturnsWith(c, cl[c], cl[c].lib,
                                 IF slot.status = "OK" THEN RC_OK ELSE RC_ERR,
                                 [num |-> slot.response.num, str |-> <<>>], "OK")
                ELSE NextRetry(c, cl[c].retries + 1)
       IN  /\ shm' = IF OwnResponseReady(slot, cl[c].id)
                     THEN [shm EXCEPT ![o].slots[cl[c].slot_idx].state = "FREE"]
                     ELSE shm
           /\ cl' = [cl EXCEPT ![c] = x.cl]
           /\ ev' = x.ev
    /\ sem' = MutexPost(cl[c].lib.mutex, ClientProc(c))
    /\ UNCHANGED <<args, nslots, shm_name, sem_name, gen_file, host, srv, pool, wk, nsub, consumed, polled>>

(***************************************************************************)
(* ipc_get_result under the mutex: the ascending scan for request_id.      *)
(***************************************************************************)
(* A test that takes every slot that is not FREE for a finished one. *)
ResponseNotFree(slot) == slot.state # "FREE"

(* slot->state == IPC_SLOT_RESPONSE_READY *)
ResponseReady(slot) == slot.state = "RESPONSE_READY"

GetCS(c) ==
    /\ cl[c].pc = "get_cs"
    /\ LET o == cl[c].lib.shm
           i == find_request_slot(shm[o], cl[c].id)
           ready == i >= 0 /\ ResponseReady(shm[o].slots[i])
           x == IF i < 0 THEN Returns(c, cl[c].lib, RC_ERR)
                ELSE IF ready
                THEN ReturnsWith(c, cl[c], cl[c].lib, RC_OK,
                                 shm[o].slots[i].response, shm[o].slots[i].status)
                ELSE Returns(c, cl[c].lib, IPC_NOT_READY)
       IN  /\ shm' = IF ready THEN [shm EXCEPT ![o].slots[i].state = "FREE"] ELSE shm
           /\ consumed' = IF ready
                          THEN consumed \cup {<<shm[o].server_generation, cl[c].id>>}
                          ELSE consumed
           /\ cl' = [cl EXCEPT ![c] = x.cl]
           /\ ev' = x.ev
    /\ polled' = NotePoll(c, cl[c].id, TRUE)
    /\ sem' = MutexPost(cl[c].lib.mutex, ClientProc(c))
    /\ UNCHANGED <<args, nslots, shm_name, sem_name, gen_file, host, srv, pool, wk, nsub>>

(***************************************************************************)
(* Server (server.cpp): the dispatcher loop of main.  srv.inc names the    *)
(* semaphore set the server created, srv.shm the object it mapped.         *)
(***************************************************************************)
PoolOf(cmd) ==
    CASE cmd \in MathCmds -> "math"
      [] cmd \in StringCmds -> "string"
      [] OTHER -> "none"

(* After sem_wait(g_server_sem): g_status_requested.exchange(false) leads to  *)
(* the status scan, otherwise running is tested and the mutex is waited for.  *)
AfterNotify(status_requested) ==
    IF status_requested THEN "d_status_lock"
    ELSE IF srv.running THEN "d_lock" ELSE "d_exit"

(* sem_wait(g_server_sem) returns 0. *)
DispWake ==
    /\ srv.pc = "d_wait"
    /\ sem[srv.inc].notify > 0
    /\ sem' = SemTake(srv.inc, "notify")
    /\ srv' = [srv EXCEPT !.pc = AfterNotify(srv.status_requested),
                          !.status_requested = FALSE, !.i = 0]
    /\ ev' = NoEvent
    /\ UNCHANGED <<args, nslots, shm, shm_name, sem_name, gen_file, host, pool, wk, cl, nsub, consumed, polled>>

(* The dispatcher's positions at a sem_wait(g_mutex_sem): before the status   *)
(* scan, before the slot scan and after each pool submit.                     *)
DispLockPcs == {"d_status_lock", "d_lock", "d_relock"}

(* Where the dispatcher is once sem_wait(g_mutex_sem) has returned. *)
AfterDispLock == IF srv.pc = "d_status_lock" THEN "d_status_scan" ELSE "d_scan"

(* sem_wait(g_mutex_sem) returns 0. *)
DispLock ==
    /\ srv.pc \in DispLockPcs
    /\ sem[srv.inc].mutex > 0
    /\ sem' = MutexWait(srv.inc, Dispatcher)
    /\ srv' = [srv EXCEPT !.pc = AfterDispLock]
    /\ ev' = NoEvent
    /\ UNCHANGED <<args, nslots, shm, shm_name, sem_name, gen_file, host, pool, wk, cl, nsub, consumed, polled>>

(* A scan that also takes the slots already PROCESSING. *)
NextUnfinished(region, i) ==
    LET pend == {j \in Slots : j >= i /\ region.slots[j].state \in {"REQUEST_PENDING", "PROCESSING"}}
    IN  IF pend = {} THEN -1
        ELSE CHOOSE j \in pend : \A k \in pend : j <= k

(* The next slot the for loop finds REQUEST_PENDING from index i on, -1 if none. *)
NextPending(region, i) ==
    LET pend == {j \in Slots : j >= i /\ region.slots[j].state = "REQUEST_PENDING"}
    IN  IF pend = {} THEN -1
        ELSE CHOOSE j \in pend : \A k \in pend : j <= k

(* Under the mutex: claim the next pending slot and post the mutex, or finish the scan. *)
DispScan ==
    /\ srv.pc = "d_scan"
    /\ LET j == NextPending(shm[srv.shm], srv.i)
       IN  IF j < 0
           THEN /\ srv' = [srv EXCEPT !.pc = IF srv.running THEN "d_wait" ELSE "d_exit",
                                      !.i = 0, !.cmd = "ADD"]
                /\ UNCHANGED shm
           ELSE /\ shm' = [shm EXCEPT ![srv.shm].slots[j].state = "PROCESSING"]
                /\ srv' = [srv EXCEPT !.pc = "d_submit", !.i = j,
                                      !.cmd = shm[srv.shm].slots[j].command]
    /\ sem' = MutexPost(srv.inc, Dispatcher)
    /\ ev' = NoEvent
    /\ UNCHANGED <<args, nslots, shm_name, sem_name, gen_file, host, pool, wk, cl, nsub, consumed, polled>>

(* The status scan: count the slots per state, post the mutex, print. *)
DispStatus ==
    /\ srv.pc = "d_status_scan"
    /\ sem' = MutexPost(srv.inc, Dispatcher)
    /\ srv' = [srv EXCEPT !.pc = AfterNotify(FALSE)]
    /\ ev' = NoEvent
    /\ UNCHANGED <<args, nslots, shm, shm_name, sem_name, gen_file, host, pool, wk, cl, nsub, consumed, polled>>

(* SIGUSR1 is delivered to the main thread: status_handler sets              *)
(* g_status_requested and posts the notify semaphore.  The handlers are       *)
(* installed without SA_RESTART, so a sem_wait the thread is blocked in       *)
(* returns -1 with EINTR; main does not look at sem_wait's return value and   *)
(* goes on as if the wait had succeeded.                                      *)
SigUsr1 ==
    /\ srv.pc \in {"d_wait", "d_scan", "d_submit", "d_status_scan"} \cup DispLockPcs
    /\ srv.signals < MaxSignals
    /\ srv' = IF srv.pc = "d_wait" /\ sem[srv.inc].notify = 0
              THEN [srv EXCEPT !.signals = @ + 1, !.pc = AfterNotify(TRUE), !.i = 0]
              ELSE IF srv.pc \in DispLockPcs /\ sem[srv.inc].mutex = 0
              THEN [srv EXCEPT !.signals = @ + 1, !.status_requested = TRUE,
                               !.pc = AfterDispLock]
              ELSE [srv EXCEPT !.signals = @ + 1, !.status_requested = TRUE]
    /\ sem' = SemPost(srv.inc, "notify")
    /\ ev' = NoEvent
    /\ UNCHANGED <<args, nslots, shm, shm_name, sem_name, gen_file, host, pool, wk, cl, nsub, consumed, polled>>

(* ThreadPool::submit: push unless stop_ is set. *)
PoolSubmit(p, slot_index) ==
    IF p \in Pools /\ ~pool[p].stop
    THEN [pool EXCEPT ![p].queue = Append(@, slot_index)]
    ELSE pool

(* Outside the mutex: math_pool.submit(i) or string_pool.submit(i). *)
DispSubmit ==
    /\ srv.pc = "d_submit"
    /\ pool' = PoolSubmit(PoolOf(srv.cmd), srv.i)
    /\ srv' = [srv EXCEPT !.pc = "d_relock", !.i = @ + 1]
    /\ ev' = NoEvent
    /\ UNCHANGED <<args, nslots, shm, shm_name, sem, sem_name, gen_file, host, wk, cl, nsub, consumed, polled>>

(***************************************************************************)
(* Worker threads: the pool loop and process_math / process_string.        *)
(***************************************************************************)
IdleWorker ==
    [pc |-> "w_idle", slot_idx |-> -1, cmd |-> "ADD", a |-> 0, b |-> 0,
     s1 |-> <<>>, s2 |-> <<>>]

(* The worker loop: the wait predicate holds with a queued index; pop it. *)
WorkerTake(w) ==
    /\ wk[w].pc = "w_idle"
    /\ pool[w[1]].queue # <<>>
    /\ wk' = [wk EXCEPT ![w].pc = "w_lock1", ![w].slot_idx = Head(pool[w[1]].queue)]
    /\ pool' = [pool EXCEPT ![w[1]].queue = Tail(@)]
    /\ ev' = NoEvent
    /\ UNCHANGED <<args, nslots, shm, shm_name, sem, sem_name, gen_file, host, srv, cl, nsub, consumed, polled>>

(* sem_wait(g_mutex_sem), before copying the request and before publishing. *)
WorkerLock(w) ==
    /\ wk[w].pc \in {"w_lock1", "w_lock2"}
    /\ sem[srv.inc].mutex > 0
    /\ sem' = MutexWait(srv.inc, w)
    /\ wk' = [wk EXCEPT ![w].pc = IF wk[w].pc = "w_lock1" THEN "w_read" ELSE "w_write"]
    /\ ev' = NoEvent
    /\ UNCHANGED <<args, nslots, shm, shm_name, sem_name, gen_file, host, srv, pool, cl, nsub, consumed, polled>>

(* Copy command and operands out of the slot, post the mutex. *)
WorkerRead(w) ==
    /\ wk[w].pc = "w_read"
    /\ LET slot == shm[srv.shm].slots[wk[w].slot_idx]
       IN  wk' = [wk EXCEPT ![w] =
                    [pc |-> "w_lock2", slot_idx |-> wk[w].slot_idx,
                     cmd |-> slot.command, a |-> slot.a, b |-> slot.b,
                     s1 |-> StrNCpy(slot.s1, IPC_MAX_STRING_LEN + 1),
                     s2 |-> StrNCpy(slot.s2, IPC_MAX_STRING_LEN + 1)]]
    /\ sem' = MutexPost(srv.inc, w)
    /\ ev' = NoEvent
    /\ UNCHANGED <<args, nslots, shm, shm_name, sem_name, gen_file, host, srv, pool, cl, nsub, consumed, polled>>

(* A handler that publishes an empty response whatever the request. *)
PublishEmpty(p, slot, t) ==
    [slot EXCEPT !.response = [num |-> 0, str |-> <<>>], !.status = "OK",
                 !.state = "RESPONSE_READY"]

(* The response the handler of pool p computes from the worker's copies. *)
Publish(p, slot, t) ==
    IF p = "math"
    THEN [slot EXCEPT !.response.num = MathResult(t.cmd, t.a, t.b),
                      !.status = MathStatus(t.cmd, t.a, t.b),
                      !.state = "RESPONSE_READY"]
    ELSE [slot EXCEPT !.response = StringResponse(t.cmd, t.s1, t.s2),
                      !.status = StringStatus(t.cmd, t.s1, t.s2),
                      !.state = "RESPONSE_READY"]

(* Under the mutex: write response and status, set RESPONSE_READY, post the mutex. *)
WorkerWrite(w) ==
    /\ wk[w].pc = "w_write"
    /\ shm' = [shm EXCEPT ![srv.shm].slots[wk[w].slot_idx] = Publish(w[1], @, wk[w])]
    /\ sem' = MutexPost(srv.inc, w)
    /\ wk' = [wk EXCEPT ![w].pc = "w_post"]
    /\ ev' = NoEvent
    /\ UNCHANGED <<args, nslots, shm_name, sem_name, gen_file, host, srv, pool, cl, nsub, consumed, polled>>

(* sem_post(g_slot_sems[slot_idx]); back to the pool loop. *)
WorkerPost(w) ==
    /\ wk[w].pc = "w_post"
    /\ sem' = SlotSemPost(srv.inc, wk[w].slot_idx)
    /\ wk' = [wk EXCEPT ![w] = IdleWorker]
    /\ ev' = NoEvent
    /\ UNCHANGED <<args, nslots, shm, shm_name, sem_name, gen_file, host, srv, pool, cl, nsub, consumed, polled>>

(***************************************************************************)
(* One server lifetime: the server has started (generation 1), the clients *)
(* have called ipc_init.                                                   *)
(***************************************************************************)
(* A header whose request id counter starts at 0. *)
RunningRegionFromZero(g) ==
    [server_generation |-> g, next_request_id |-> 0,
     slots |-> [i \in Slots |-> ZeroSlot]]

RunningRegion(g) ==
    [server_generation |-> g, next_request_id |-> 1,
     slots |-> [i \in Slots |-> ZeroSlot]]

FreshSems == [mutex |-> 1, notify |-> 0, slot |-> [i \in Slots |-> 0], holders |-> {}]

ConnectedLib(k) == [shm |-> k, gen |-> k, mutex |-> k, notify |-> k, slotsem |-> k]

(* g_shutdown_mode, the pool main is shutting down, the two return values of  *)
(* ThreadPool::shutdown, and main's return value (-1 while it runs).          *)
NoneDiscarded == [p \in Pools |-> 0]

(* The lock file: the inode the name /tmp/ipc_server.lock is bound to (0 when *)
(* there is none), the number of inodes created so far, per inode the process *)
(* that holds the flock (0 when free),                                        *)
(* and the server processes: position in main, the inode the descriptor       *)
(* g_lock_fd refers to, the generation taken, the exit code.                   *)
OffServer == [pc |-> "off", fd |-> 0, gen |-> 0, exit_code |-> -1]

InitHost ==
    [lock_name |-> 1, inodes |-> 1,
     flock |-> [i \in Inodes |-> IF i = 1 THEN 1 ELSE 0],
     proc |-> [p \in Servers |->
                 IF p = 1 THEN [pc |-> "running", fd |-> 1, gen |-> 1, exit_code |-> -1]
                 ELSE OffServer]]

InitServer ==
    [pc |-> "d_wait", inc |-> 1, shm |-> 1, gen |-> 1, i |-> 0, cmd |-> "ADD",
     running |-> TRUE, status_requested |-> FALSE, signals |-> 0,
     mode |-> "Drain", sd_pool |-> "math", discarded |-> NoneDiscarded,
     terms |-> 0, exit_code |-> -1, old_ids |-> 0]

Init ==
    /\ nslots = NumSlots
    /\ shm = [o \in Incs |-> IF o = 1 THEN RunningRegion(1) ELSE ZeroRegion]
    /\ shm_name = 1
    /\ sem = [k \in Incs |-> IF k = 1 THEN FreshSems ELSE NoSems]
    /\ sem_name = [mutex |-> 1, notify |-> 1, slot |-> 1]
    /\ gen_file = 1
    /\ host = InitHost
    /\ srv = InitServer
    /\ pool = [p \in Pools |-> [queue |-> <<>>, stop |-> FALSE]]
    /\ wk = [w \in Workers |-> IdleWorker]
    /\ cl = [c \in Clients |-> IdleClient(ConnectedLib(1))]
    /\ nsub = 0
    /\ consumed = {}
    /\ args = DefaultArgs
    /\ polled = {}
    /\ ev = NoEvent

(* The steps of a blocking call, and the steps only the async calls take. *)
BlockingStep(c) ==
    \/ ipc_add(c)
    \/ LockAcquire(c)
    \/ LockTimeout(c)
    \/ SubmitCS(c)
    \/ SubmitNotify(c)
    \/ BlockWake(c)
    \/ BlockTimeout(c)
    \/ BlockCS(c)

AsyncStep(c) ==
    \/ ipc_async(c)
    \/ \E id \in 1 .. MaxRequests : id <= nsub /\ ipc_get_result(c, id)
    \/ GetCS(c)

ClientStep(c) == BlockingStep(c) \/ AsyncStep(c)

ServerStep ==
    \/ DispWake
    \/ DispLock
    \/ DispScan
    \/ DispSubmit
    \/ \E w \in Workers :
        WorkerTake(w) \/ WorkerLock(w) \/ WorkerRead(w) \/ WorkerWrite(w) \/ WorkerPost(w)

Next == (\E c \in Clients : ClientStep(c)) \/ ServerStep

Spec == Init /\ [][Next]_vars

(***************************************************************************)
(* Server crash and restart.  SIGKILL ends the dispatcher and the workers  *)
(* wherever they are; the shared memory object, the semaphores and their   *)
(* names stay, and so do the clients' mappings and handles.  The next      *)
(* server runs main from the top.                                          *)
(***************************************************************************)
ServerCrash ==
    /\ srv.pc \in {"d_wait", "d_lock", "d_relock", "d_scan", "d_submit"}
    /\ srv.inc < MaxInc
    /\ srv' = [srv EXCEPT !.pc = "dead", !.i = 0, !.cmd = "ADD"]
    /\ wk' = [w \in Workers |-> IdleWorker]
    /\ pool' = [p \in Pools |-> [queue |-> <<>>, stop |-> FALSE]]
    /\ ev' = NoEvent
    /\ UNCHANGED <<args, nslots, shm, shm_name, sem, sem_name, gen_file, host, cl, nsub, consumed, polled>>

(* A generation that repeats the stored one. *)
stored_server_generation == gen_file

(* next_server_generation: under the flock of the generation file, read the   *)
(* stored value, add one, write it back.                                      *)
next_server_generation == gen_file + 1

(* main: flock on the lock file (free, its holder is dead), shm_open with     *)
(* O_CREAT and no O_EXCL, ftruncate to the same size, mmap, and               *)
(* next_server_generation.                                                    *)
StartOpen ==
    /\ srv.pc = "dead"
    /\ srv.inc < MaxInc
    /\ srv' = [srv EXCEPT !.pc = "s_zero", !.inc = @ + 1, !.exit_code = -1,
                          !.shm = IF shm_name # 0 THEN shm_name ELSE srv.inc + 1,
                          !.gen = next_server_generation,
                          !.old_ids = IF shm[srv.shm].next_request_id > 0
                                      THEN shm[srv.shm].next_request_id - 1 ELSE 0]
    /\ shm_name' = IF shm_name # 0 THEN shm_name ELSE srv.inc + 1
    /\ gen_file' = next_server_generation
    /\ ev' = NoEvent
    /\ UNCHANGED <<args, nslots, shm, sem, sem_name, host, pool, wk, cl, nsub, consumed, polled>>

(* memset(g_shm, 0, sizeof(SharedMemoryLayout)): no semaphore is taken. *)
StartZero ==
    /\ srv.pc = "s_zero"
    /\ shm' = [shm EXCEPT ![srv.shm] = ZeroRegion]
    /\ srv' = [srv EXCEPT !.pc = "s_header"]
    /\ ev' = NoEvent
    /\ UNCHANGED <<args, nslots, shm_name, sem, sem_name, gen_file, host, pool, wk, cl, nsub, consumed, polled>>

(* g_shm->server_generation = server_generation; g_shm->next_request_id = 1; *)
(* Bookkeeping: from here on the region is the new generation's; the calls of *)
(* ipc_get_result under way are not calls made after the restart.             *)
StartHeader ==
    /\ srv.pc = "s_header"
    /\ shm' = [shm EXCEPT ![srv.shm].server_generation = srv.gen,
                          ![srv.shm].next_request_id = 1]
    /\ srv' = [srv EXCEPT !.pc = "s_sem_mutex"]
    /\ polled' = {<<c, cl[c].id>> : c \in {d \in Clients : cl[d].op = "get"}}
    /\ ev' = NoEvent
    /\ UNCHANGED <<args, nslots, shm_name, sem, sem_name, gen_file, host, pool, wk, cl, nsub, consumed>>

(* sem_open(O_CREAT | O_EXCL) of one name; on EEXIST sem_unlink and create:   *)
(* the name is bound to a new semaphore with the initial value.               *)
CreateSem(which, value) ==
    /\ sem' = [sem EXCEPT ![srv.inc][which] = value]
    /\ sem_name' = [sem_name EXCEPT ![which] = srv.inc]

StartSemMutex ==
    /\ srv.pc = "s_sem_mutex"
    /\ CreateSem("mutex", 1)
    /\ srv' = [srv EXCEPT !.pc = "s_sem_notify"]
    /\ ev' = NoEvent
    /\ UNCHANGED <<args, nslots, shm, shm_name, gen_file, host, pool, wk, cl, nsub, consumed, polled>>

StartSemNotify ==
    /\ srv.pc = "s_sem_notify"
    /\ CreateSem("notify", 0)
    /\ srv' = [srv EXCEPT !.pc = "s_sem_slot"]
    /\ ev' = NoEvent
    /\ UNCHANGED <<args, nslots, shm, shm_name, gen_file, host, pool, wk, cl, nsub, consumed, polled>>

(* The per-slot semaphores, then sigaction, the two pools, the dispatcher loop. *)
StartSemSlots ==
    /\ srv.pc = "s_sem_slot"
    /\ CreateSem("slot", [i \in Slots |-> 0])
    /\ srv' = [srv EXCEPT !.pc = "d_wait"]
    /\ ev' = NoEvent
    /\ UNCHANGED <<args, nslots, shm, shm_name, gen_file, host, pool, wk, cl, nsub, consumed, polled>>

ServerStart ==
    StartOpen \/ StartZero \/ StartHeader \/ StartSemMutex \/ StartSemNotify
    \/ StartSemSlots

(* The clients of the restart scenario make blocking calls only. *)
NextRestart ==
    \/ \E c \in Clients : BlockingStep(c) \/ StaleRelease(c)
    \/ ServerStep
    \/ ServerCrash
    \/ ServerStart

SpecRestart == Init /\ [][NextRestart]_vars

(* The client processes run: a call under way takes its next step, a timed    *)
(* wait either succeeds or times out.  Nothing is assumed of the server.      *)
ClientRuns(c) == BlockingStep(c) \/ StaleRelease(c)

FairClients == \A c \in Clients : WF_vars(ClientRuns(c))

SpecRestartFair == SpecRestart /\ FairClients

(***************************************************************************)
(* One server lifetime in which the operator asks for a status report      *)
(* (kill -USR1).                                                           *)
(***************************************************************************)
NextSignal ==
    \/ \E c \in Clients : BlockingStep(c)
    \/ ServerStep
    \/ SigUsr1
    \/ DispStatus

SpecSignal == Init /\ [][NextSignal]_vars

(***************************************************************************)
(* Server crash and restart with clients that submit asynchronously and    *)
(* poll with ipc_get_result.                                               *)
(***************************************************************************)
PollStep(c) ==
    \/ ipc_async(c)
    \/ \E id \in 1 .. MaxRequests : id <= nsub /\ ipc_get_result(c, id)
    \/ LockAcquire(c)
    \/ LockTimeout(c)
    \/ StaleRelease(c)
    \/ SubmitCS(c)
    \/ SubmitNotify(c)
    \/ GetCS(c)

(* One client is active in this scenario. *)
NextRecover ==
    \/ PollStep(1)
    \/ ServerStep
    \/ ServerCrash
    \/ ServerStart

SpecRecover == Init /\ [][NextRecover]_vars

(***************************************************************************)
(* The interactive client 1 with a server that crashes and restarts: main's *)
(* loop probes for a restart, then the user submits a multiplication or     *)
(* asks for the pending results.                                           *)
(***************************************************************************)
InitApp ==
    /\ nslots = NumSlots
    /\ shm = [o \in Incs |-> IF o = 1 THEN RunningRegion(1) ELSE ZeroRegion]
    /\ shm_name = 1
    /\ sem = [k \in Incs |-> IF k = 1 THEN FreshSems ELSE NoSems]
    /\ sem_name = [mutex |-> 1, notify |-> 1, slot |-> 1]
    /\ gen_file = 1
    /\ host = InitHost
    /\ srv = InitServer
    /\ pool = [p \in Pools |-> [queue |-> <<>>, stop |-> FALSE]]
    /\ wk = [w \in Workers |-> IdleWorker]
    /\ cl = [c \in Clients |->
               [IdleClient(ConnectedLib(1)) EXCEPT !.app = IF c = 1 THEN MenuApp ELSE NoApp]]
    /\ nsub = 0
    /\ consumed = {}
    /\ args = DefaultArgs
    /\ polled = {}
    /\ ev = NoEvent

(* pre_menu_restart_probe calls ipc_get_result(0, ...). *)
AppProbe(c) == cl[c].app.pc = "top" /\ ipc_get_result(c, 0)

(* Menu choice 2: ipc_multiply. *)
AppMultiply(c) ==
    cl[c].app.pc = "menu" /\ CallSubmitUpTo(c, "async", "MUL", MaxSlotRequests)

(* Menu choice 4: check_pending starts at pending.begin(). *)
AppCheck(c) ==
    /\ cl[c].app.pc = "menu"
    /\ cl[c].pc = "idle"
    /\ cl' = [cl EXCEPT ![c].app =
                 IF cl[c].app.pending = <<>> THEN [@ EXCEPT !.pc = "top"]
                 ELSE [@ EXCEPT !.pc = "check", !.it = 1]]
    /\ ev' = NoEvent
    /\ UNCHANGED <<args, nslots, shm, shm_name, sem, sem_name, gen_file, host, srv, pool, wk,
                   nsub, consumed, polled>>

(* check_pending: the entry has an id, ipc_get_result(it->id, ...). *)
AppPoll(c) ==
    /\ cl[c].app.pc = "check"
    /\ cl[c].app.pending[cl[c].app.it].id # 0
    /\ ipc_get_result(c, cl[c].app.pending[cl[c].app.it].id)

(* resubmit_pending: in check_pending for an entry whose id is 0, and in the  *)
(* loop of retry_pending_after_restart.                                       *)
AppResubmit(c) ==
    /\ \/ cl[c].app.pc = "retry"
       \/ cl[c].app.pc = "check" /\ cl[c].app.pending[cl[c].app.it].id = 0
    /\ CallSubmitUpTo(c, "async", "MUL", MaxSlotRequests)

AppStep(c) ==
    \/ AppProbe(c)
    \/ AppMultiply(c)
    \/ AppCheck(c)
    \/ AppPoll(c)
    \/ AppResubmit(c)
    \/ LockAcquire(c)
    \/ LockTimeout(c)
    \/ StaleRelease(c)
    \/ SubmitCS(c)
    \/ SubmitNotify(c)
    \/ GetCS(c)

NextApp ==
    \/ AppStep(1)
    \/ ServerStep
    \/ ServerCrash
    \/ ServerStart

SpecApp == InitApp /\ [][NextApp]_vars

(* The threads of the server and the application of the client.  Every      *)
(* thread that can run infinitely often does run: a thread that waits for a  *)
(* semaphore gets it when it is posted again and again (strong fairness); a  *)
(* server that died is started again; the application goes on calling the    *)
(* library.                                                                  *)
DispatcherThread == DispWake \/ DispLock \/ DispScan \/ DispSubmit

PoolWorker(w) ==
    WorkerTake(w) \/ WorkerLock(w) \/ WorkerRead(w) \/ WorkerWrite(w) \/ WorkerPost(w)

FairRecover ==
    /\ WF_vars(ServerStart)
    /\ SF_vars(DispatcherThread)
    /\ \A w \in Workers : SF_vars(PoolWorker(w))
    /\ WF_vars(PollStep(1))

SpecRecoverFair == SpecRecover /\ FairRecover

(* One server lifetime in which every thread of the server and every client  *)
(* process runs.                                                              *)
FairRun ==
    /\ SF_vars(DispatcherThread)
    /\ \A w \in Workers : SF_vars(PoolWorker(w))
    /\ \A c \in Clients : WF_vars(ClientStep(c))

SpecFair == Spec /\ FairRun

(***************************************************************************)
(* Async calls with any arguments, over a server crash and restart.        *)
(***************************************************************************)
(* As in ipc_async, the first client multiplies and the others concatenate. *)
AsyncCall(c) ==
    \/ \E request_id \in Ptrs : c = 1 /\ async_math(c, "MUL", request_id)
    \/ \E s \in StringArgs(c), request_id \in Ptrs :
          c # 1 /\ async_string(c, "CONCAT", s[1], s[2], request_id)

NextValidate ==
    \/ \E c \in Clients :
          \/ AsyncCall(c)
          \/ LockAcquire(c)
          \/ LockTimeout(c)
          \/ StaleRelease(c)
          \/ SubmitCS(c)
          \/ SubmitNotify(c)
    \/ ServerStep
    \/ ServerCrash
    \/ ServerStart

SpecValidate == Init /\ [][NextValidate]_vars

(***************************************************************************)
(* Math requests with operands the application draws from the int32_t      *)
(* range, its ends included.  One client makes the four math calls.        *)
(***************************************************************************)
MathOperands == {-IntHalf, -1, 0, 1, 7, IntHalf - 1}

(* ipc_add, ipc_subtract (blocking_math), ipc_multiply, ipc_divide (async_math). *)
MathCall(c) ==
    \E cmd \in MathCmds :
        CallSubmit(c, IF cmd \in {"ADD", "SUB"} THEN "blocking" ELSE "async", cmd)

(* The division in process_math raises SIGFPE and ends the server process:  *)
(* every thread of it stops where it is, nothing is unlinked or reset.  The *)
(* other outcome of the undefined division is the wrapped quotient, which   *)
(* WorkerWrite publishes.                                                   *)
MathTrap(w) ==
    /\ w[1] = "math"
    /\ wk[w].pc = "w_lock2"
    /\ wk[w].cmd = "DIV"
    /\ Overflows(wk[w].cmd, wk[w].a, wk[w].b)
    /\ srv' = [srv EXCEPT !.pc = "dead", !.i = 0, !.cmd = "ADD"]
    /\ wk' = [v \in Workers |-> IF v = w THEN wk[w] ELSE IdleWorker]
    /\ pool' = [p \in Pools |-> [queue |-> <<>>, stop |-> FALSE]]
    /\ ev' = NoEvent
    /\ UNCHANGED <<args, nslots, shm, shm_name, sem, sem_name, gen_file, host, cl, nsub, consumed, polled>>

InitMath ==
    /\ nslots = NumSlots
    /\ shm = [o \in Incs |-> IF o = 1 THEN RunningRegion(1) ELSE ZeroRegion]
    /\ shm_name = 1
    /\ sem = [k \in Incs |-> IF k = 1 THEN FreshSems ELSE NoSems]
    /\ sem_name = [mutex |-> 1, notify |-> 1, slot |-> 1]
    /\ gen_file = 1
    /\ host = InitHost
    /\ srv = InitServer
    /\ pool = [p \in Pools |-> [queue |-> <<>>, stop |-> FALSE]]
    /\ wk = [w \in Workers |-> IdleWorker]
    /\ cl = [c \in Clients |-> IdleClient(ConnectedLib(1))]
    /\ nsub = 0
    /\ consumed = {}
    /\ \E a \in MathOperands, b \in MathOperands :
          args = [DefaultArgs EXCEPT ![1].a = a, ![1].b = b]
    /\ polled = {}
    /\ ev = NoEvent

MathClientStep(c) ==
    \/ MathCall(c)
    \/ LockAcquire(c)
    \/ LockTimeout(c)
    \/ SubmitCS(c)
    \/ SubmitNotify(c)
    \/ BlockWake(c)
    \/ BlockTimeout(c)
    \/ BlockCS(c)
    \/ \E id \in 1 .. MaxRequests : id <= nsub /\ ipc_get_result(c, id)
    \/ GetCS(c)

NextMath ==
    \/ MathClientStep(1)
    \/ ServerStep
    \/ \E w \in Workers : MathTrap(w)

SpecMath == InitMath /\ [][NextMath]_vars

(* Every thread of the running server is scheduled, and gets the mutex when  *)
(* it is free again and again; the application goes on with its calls.  No   *)
(* signal is sent.                                                           *)
FairMath ==
    /\ SF_vars(DispatcherThread)
    /\ \A w \in Workers : SF_vars(PoolWorker(w))
    /\ WF_vars(MathClientStep(1))

SpecMathFair == SpecMath /\ FairMath

(***************************************************************************)
(* SEARCH requests with strings the application draws: every string of up  *)
(* to MaxLen characters over a two-letter alphabet, and one of the full     *)
(* length IPC_MAX_STRING_LEN.  One client makes the calls.                  *)
(***************************************************************************)
ShortStrings == UNION {[1 .. n -> {1, 2}] : n \in 1 .. MaxLen}

LongString == [i \in 1 .. IPC_MAX_STRING_LEN |-> IF i = IPC_MAX_STRING_LEN THEN 2 ELSE 1]

SearchStrings == ShortStrings \cup {LongString}

(* ipc_search(haystack, needle, &request_id). *)
ipc_search(c) == async_string(c, "SEARCH", CStr(OperandS1(c)), CStr(OperandS2(c)), 1)

InitSearch ==
    /\ nslots = NumSlots
    /\ shm = [o \in Incs |-> IF o = 1 THEN RunningRegion(1) ELSE ZeroRegion]
    /\ shm_name = 1
    /\ sem = [k \in Incs |-> IF k = 1 THEN FreshSems ELSE NoSems]
    /\ sem_name = [mutex |-> 1, notify |-> 1, slot |-> 1]
    /\ gen_file = 1
    /\ host = InitHost
    /\ srv = InitServer
    /\ pool = [p \in Pools |-> [queue |-> <<>>, stop |-> FALSE]]
    /\ wk = [w \in Workers |-> IdleWorker]
    /\ cl = [c \in Clients |-> IdleClient(ConnectedLib(1))]
    /\ nsub = 0
    /\ consumed = {}
    /\ \E h \in SearchStrings, n \in SearchStrings :
          args = [DefaultArgs EXCEPT ![1].s1 = h, ![1].s2 = n]
    /\ polled = {}
    /\ ev = NoEvent

SearchClientStep(c) ==
    \/ ipc_search(c)
    \/ LockAcquire(c)
    \/ LockTimeout(c)
    \/ SubmitCS(c)
    \/ SubmitNotify(c)
    \/ \E id \in 1 .. MaxRequests : id <= nsub /\ ipc_get_result(c, id)
    \/ GetCS(c)

NextSearch == SearchClientStep(1) \/ ServerStep

SpecSearch == InitSearch /\ [][NextSearch]_vars

(***************************************************************************)
(* A region of two slots: the clients submit asynchronous requests and     *)
(* poll for the results, so that slots are reserved, dispatched and freed  *)
(* while other slots are in use.                                           *)
(***************************************************************************)
InitSlots ==
    /\ nslots = NumSlots + 1
    /\ shm = [o \in Incs |-> IF o = 1 THEN RunningRegion(1) ELSE ZeroRegion]
    /\ shm_name = 1
    /\ sem = [k \in Incs |-> IF k = 1 THEN FreshSems ELSE NoSems]
    /\ sem_name = [mutex |-> 1, notify |-> 1, slot |-> 1]
    /\ gen_file = 1
    /\ host = InitHost
    /\ srv = InitServer
    /\ pool = [p \in Pools |-> [queue |-> <<>>, stop |-> FALSE]]
    /\ wk = [w \in Workers |-> IdleWorker]
    /\ cl = [c \in Clients |-> IdleClient(ConnectedLib(1))]
    /\ nsub = 0
    /\ consumed = {}
    /\ args = DefaultArgs
    /\ polled = {}
    /\ ev = NoEvent

(* ipc_multiply by client 1, ipc_concat by client 2. *)
SlotCall(c) ==
    CallSubmitUpTo(c, "async", IF c = 1 THEN "MUL" ELSE "CONCAT", MaxSlotRequests)

SlotSubmitStep(c) ==
    \/ SlotCall(c)
    \/ LockAcquire(c)
    \/ LockTimeout(c)
    \/ SubmitCS(c)
    \/ SubmitNotify(c)

(* Client 1 also polls: ipc_get_result frees the slot of any id it is given. *)
SlotPollStep(c) ==
    \/ \E id \in 1 .. MaxSlotRequests : id <= nsub /\ ipc_get_result(c, id)
    \/ GetCS(c)

NextSlots ==
    \/ \E c \in Clients : SlotSubmitStep(c)
    \/ SlotPollStep(1)
    \/ ServerStep

SpecSlots == InitSlots /\ [][NextSlots]_vars

(***************************************************************************)
(* A client that disconnects with ipc_cleanup and connects again with      *)
(* ipc_init while the other client and the server go on.                   *)
(***************************************************************************)
(* A cleanup that unlinks what it closes. *)
Unlinked(binding) == 0

(* sem_close, munmap and close release the handle of the calling process;   *)
(* the name stays bound to the object.                                      *)
Closed(binding) == binding

(* ipc_cleanup(): close and clear every handle, g_known_generation = 0. *)
ipc_cleanup(c) ==
    /\ cl[c].pc = "idle"
    /\ shm_name' = Closed(shm_name)
    /\ LET x == ReturnsWith(c, [cl[c] EXCEPT !.op = "cleanup", !.id = 0], NullLib,
                            RC_OK, NoResponse, "OK")
       IN  cl' = [cl EXCEPT ![c] = x.cl] /\ ev' = x.ev
    /\ UNCHANGED <<args, nslots, shm, sem, sem_name, gen_file, host, srv, pool, wk, nsub,
                   consumed, polled>>

(* The application calls ipc_init() after a cleanup. *)
CallInit(c) ==
    /\ cl[c].pc = "idle"
    /\ cl[c].lib = NullLib
    /\ LET x == ReturnsWith(c, [cl[c] EXCEPT !.op = "init", !.id = 0], ipc_init.lib,
                            ipc_init.rc, NoResponse, "OK")
       IN  cl' = [cl EXCEPT ![c] = x.cl] /\ ev' = x.ev
    /\ UNCHANGED <<args, nslots, shm, shm_name, sem, sem_name, gen_file, host, srv, pool, wk,
                   nsub, consumed, polled>>

(* The second client polls, disconnects and connects; the first makes       *)
(* blocking calls.                                                          *)
NextCleanup ==
    \/ BlockingStep(1)
    \/ ipc_async(2)
    \/ \E id \in 1 .. MaxRequests : id <= nsub /\ ipc_get_result(2, id)
    \/ LockAcquire(2)
    \/ LockTimeout(2)
    \/ SubmitCS(2)
    \/ SubmitNotify(2)
    \/ GetCS(2)
    \/ ipc_cleanup(2)
    \/ CallInit(2)
    \/ ServerStep

SpecCleanup == Init /\ [][NextCleanup]_vars

(***************************************************************************)
(* The singleton lock: server processes that start and shut down cleanly.  *)
(* A start opens (or creates) the lock file, tries the non-blocking flock  *)
(* and either returns 1 or goes on to set up the region; a clean shutdown  *)
(* ends with cleanup_ipc, which unlinks the lock file and then closes the  *)
(* descriptor that holds the flock.  An unlinked file lives on, with its   *)
(* flock, for the processes that have it open.                             *)
(***************************************************************************)
(* open(LOCK_FILE, O_CREAT | O_RDWR): the file the name is bound to, or a new one. *)
LockOpen(p) ==
    /\ host.proc[p].pc = "off"
    /\ host.lock_name # 0 \/ host.inodes < MaxInodes
    /\ LET created == host.lock_name = 0
           f == IF created THEN host.inodes + 1 ELSE host.lock_name
       IN  host' = [host EXCEPT !.lock_name = f,
                                !.inodes = IF created THEN @ + 1 ELSE @,
                                !.proc[p].pc = "opened", !.proc[p].fd = f]
    /\ ev' = NoEvent
    /\ UNCHANGED <<args, nslots, shm, shm_name, sem, sem_name, gen_file, srv, pool, wk, cl,
                   nsub, consumed, polled>>

(* A start that goes on whether or not flock succeeded. *)
AfterFlockIgnored(held) == "locked"

(* if (flock(g_lock_fd, LOCK_EX | LOCK_NB) < 0) { ...; return 1; } *)
AfterFlock(held) == IF held THEN "failed" ELSE "locked"

(* flock: refused with EWOULDBLOCK when another process holds the lock on     *)
(* this file (close, return 1), granted otherwise.                            *)
LockFlock(p) ==
    /\ host.proc[p].pc = "opened"
    /\ LET f == host.proc[p].fd
           to == AfterFlock(host.flock[f] # 0)
       IN  host' = [host EXCEPT
                      !.flock[f] = IF to = "locked" THEN p ELSE @,
                      !.proc[p].pc = to,
                      !.proc[p].fd = IF to = "locked" THEN f ELSE 0,
                      !.proc[p].exit_code = IF to = "locked" THEN -1 ELSE 1]
    /\ ev' = NoEvent
    /\ UNCHANGED <<args, nslots, shm, shm_name, sem, sem_name, gen_file, srv, pool, wk, cl,
                   nsub, consumed, polled>>

(* The object shm_open(O_CREAT) maps: the one the name is bound to, or a new   *)
(* one.  Object numbers are reused once MaxInc objects exist.                  *)
OpenedObject == IF shm_name # 0 THEN shm_name ELSE 1 + (gen_file % MaxInc)

(* Past the lock: shm_open, mmap, next_server_generation, memset, the header,  *)
(* the semaphores; then the dispatcher loop.                                   *)
ServerInit(p) ==
    /\ host.proc[p].pc = "locked"
    /\ host' = [host EXCEPT !.proc[p].pc = "running",
                            !.proc[p].gen = next_server_generation]
    /\ gen_file' = next_server_generation
    /\ shm_name' = OpenedObject
    /\ shm' = [shm EXCEPT ![OpenedObject] = RunningRegion(next_server_generation)]
    /\ sem' = [sem EXCEPT ![OpenedObject] = FreshSems]
    /\ sem_name' = [mutex |-> OpenedObject, notify |-> OpenedObject,
                    slot |-> OpenedObject]
    /\ ev' = NoEvent
    /\ UNCHANGED <<args, nslots, srv, pool, wk, cl, nsub, consumed, polled>>

(* SIGINT / SIGTERM, the pools shut down, cleanup_ipc up to and including      *)
(* unlink(LOCK_FILE): every name is removed, whatever it is bound to.          *)
ShutdownUnlink(p) ==
    /\ host.proc[p].pc = "running"
    /\ host' = [host EXCEPT !.lock_name = 0, !.proc[p].pc = "unlinked"]
    /\ shm_name' = 0
    /\ sem_name' = [mutex |-> 0, notify |-> 0, slot |-> 0]
    /\ ev' = NoEvent
    /\ UNCHANGED <<args, nslots, shm, sem, gen_file, srv, pool, wk, cl, nsub, consumed, polled>>

(* close(g_lock_fd) releases the flock; main returns 0. *)
LockClose(p) ==
    /\ host.proc[p].pc = "unlinked"
    /\ host' = [host EXCEPT !.flock[host.proc[p].fd] = 0,
                            !.proc[p].pc = "exited", !.proc[p].fd = 0,
                            !.proc[p].exit_code = 0]
    /\ ev' = NoEvent
    /\ UNCHANGED <<args, nslots, shm, shm_name, sem, sem_name, gen_file, srv, pool, wk, cl,
                   nsub, consumed, polled>>

(* The operator starts the server again after it has ended. *)
StartAgain(p) ==
    /\ host.proc[p].pc \in {"exited", "failed"}
    /\ gen_file < MaxStarts
    /\ host' = [host EXCEPT !.proc[p].pc = "off", !.proc[p].exit_code = -1]
    /\ ev' = NoEvent
    /\ UNCHANGED <<args, nslots, shm, shm_name, sem, sem_name, gen_file, srv, pool, wk, cl,
                   nsub, consumed, polled>>

NextSingleton ==
    \E p \in Servers :
        \/ LockOpen(p)
        \/ LockFlock(p)
        \/ ServerInit(p)
        \/ ShutdownUnlink(p)
        \/ LockClose(p)
        \/ StartAgain(p)

SpecSingleton == Init /\ [][NextSingleton]_vars

(***************************************************************************)
(* ThreadPool, step by step: the worker loop with the pool mutex and the   *)
(* condition variable, submit, and shutdown(mode).  A worker holds the     *)
(* pool mutex from the evaluation of the wait predicate until it pops,     *)
(* returns or blocks in cv_.wait; "w_prewait" is a worker that has seen    *)
(* the predicate false and has not blocked yet.                            *)
(***************************************************************************)
PoolMutexFree(p) == \A w \in Workers : w[1] = p => wk[w].pc # "w_prewait"

(* The pools exist from their construction in main until main returns. *)
PoolsAlive == srv.pc \notin {"dead", "s_zero", "s_header", "s_sem_mutex",
                              "s_sem_notify", "s_sem_slot"}

(* cv_.notify_one(): one blocked worker, if there is one, leaves cv_.wait. *)
NotifyOne(p, w) ==
    IF w[1] = p /\ wk[w].pc = "w_cvwait" THEN [wk EXCEPT ![w].pc = "w_idle"] ELSE wk

(* cv_.notify_all(): every worker blocked in cv_.wait leaves it. *)
NotifyAll(p) ==
    [w \in Workers |->
        IF w[1] = p /\ wk[w].pc = "w_cvwait" THEN [wk[w] EXCEPT !.pc = "w_idle"]
        ELSE wk[w]]

(* unique_lock, then the wait predicate stop_ || !queue_.empty(): return on   *)
(* stop_ with an empty queue, pop the front index, or go on to block.         *)
PoolCheck(w) ==
    /\ PoolsAlive
    /\ wk[w].pc = "w_idle"
    /\ PoolMutexFree(w[1])
    /\ IF pool[w[1]].queue # <<>>
       THEN /\ wk' = [wk EXCEPT ![w].pc = "w_lock1",
                                ![w].slot_idx = Head(pool[w[1]].queue)]
            /\ pool' = [pool EXCEPT ![w[1]].queue = Tail(@)]
       ELSE /\ wk' = [wk EXCEPT ![w].pc = IF pool[w[1]].stop THEN "w_exit"
                                          ELSE "w_prewait"]
            /\ UNCHANGED pool
    /\ ev' = NoEvent
    /\ UNCHANGED <<args, nslots, shm, shm_name, sem, sem_name, gen_file, host, srv, cl, nsub, consumed, polled>>

(* cv_.wait releases the pool mutex and blocks until a notify. *)
PoolBlock(w) ==
    /\ wk[w].pc = "w_prewait"
    /\ wk' = [wk EXCEPT ![w].pc = "w_cvwait"]
    /\ ev' = NoEvent
    /\ UNCHANGED <<args, nslots, shm, shm_name, sem, sem_name, gen_file, host, srv, pool, cl,
                   nsub, consumed, polled>>

(* The dispatcher's pool.submit(i): push under the pool mutex, notify_one. *)
DispSubmitNotify ==
    /\ srv.pc = "d_submit"
    /\ PoolMutexFree(PoolOf(srv.cmd))
    /\ pool' = PoolSubmit(PoolOf(srv.cmd), srv.i)
    /\ \E w \in Workers :
          /\ w[1] = PoolOf(srv.cmd)
          /\ wk' = IF pool[w[1]].stop THEN wk ELSE NotifyOne(w[1], w)
    /\ srv' = [srv EXCEPT !.pc = "d_relock", !.i = @ + 1]
    /\ ev' = NoEvent
    /\ UNCHANGED <<args, nslots, shm, shm_name, sem, sem_name, gen_file, host, cl, nsub, consumed, polled>>

(***************************************************************************)
(* SIGINT / SIGTERM and the clean shutdown of main.                        *)
(***************************************************************************)
(* signal_handler in the main thread: g_running = false, then                *)
(* sem_post(g_server_sem).  A sem_wait the thread is blocked in returns -1    *)
(* with EINTR and main goes on.                                               *)
SigTerm ==
    /\ srv.pc \in {"d_wait", "d_scan", "d_submit", "d_status_scan"} \cup DispLockPcs
    /\ srv.terms < MaxTerms
    /\ srv' = IF srv.pc = "d_wait" /\ sem[srv.inc].notify = 0
              THEN [srv EXCEPT !.terms = @ + 1, !.running = FALSE,
                               !.status_requested = FALSE, !.i = 0,
                               !.pc = IF srv.status_requested THEN "d_status_lock"
                                      ELSE "d_exit"]
              ELSE IF srv.pc \in DispLockPcs /\ sem[srv.inc].mutex = 0
              THEN [srv EXCEPT !.terms = @ + 1, !.running = FALSE, !.pc = AfterDispLock]
              ELSE [srv EXCEPT !.terms = @ + 1, !.running = FALSE]
    /\ sem' = SemPost(srv.inc, "notify")
    /\ ev' = NoEvent
    /\ UNCHANGED <<args, nslots, shm, shm_name, sem_name, gen_file, host, pool, wk, cl, nsub, consumed, polled>>

(* Out of the loop: pending_count of both pools, the shutdown message. *)
DispExit ==
    /\ srv.pc = "d_exit"
    /\ srv' = [srv EXCEPT !.pc = "sd_stop", !.sd_pool = "math"]
    /\ ev' = NoEvent
    /\ UNCHANGED <<args, nslots, shm, shm_name, sem, sem_name, gen_file, host, pool, wk, cl,
                   nsub, consumed, polled>>

(* A shutdown that empties the queue in either mode. *)
AfterStopDiscard(mode) == "sd_swap"

(* if (mode == ShutdownMode::Immediate) { ... swap ... } cv_.notify_all(); *)
AfterStop(mode) == IF mode = "Immediate" THEN "sd_swap" ELSE "sd_notify"

(* shutdown: stop_.exchange(true), without the pool mutex. *)
SdStop ==
    /\ srv.pc = "sd_stop"
    /\ pool' = [pool EXCEPT ![srv.sd_pool].stop = TRUE]
    /\ srv' = [srv EXCEPT !.pc = AfterStop(srv.mode)]
    /\ ev' = NoEvent
    /\ UNCHANGED <<args, nslots, shm, shm_name, sem, sem_name, gen_file, host, wk, cl, nsub, consumed, polled>>

(* A count that reports nothing discarded. *)
QueueSizeZero(queue) == 0

(* queue_.size() *)
QueueSize(queue) == Len(queue)

(* Immediate only: under the pool mutex, discarded = queue_.size(), then the  *)
(* queue is swapped with an empty one.                                        *)
SdSwap ==
    /\ srv.pc = "sd_swap"
    /\ PoolMutexFree(srv.sd_pool)
    /\ pool' = [pool EXCEPT ![srv.sd_pool].queue = <<>>]
    /\ srv' = [srv EXCEPT !.pc = "sd_notify",
                          !.discarded[srv.sd_pool] = QueueSize(pool[srv.sd_pool].queue)]
    /\ ev' = NoEvent
    /\ UNCHANGED <<args, nslots, shm, shm_name, sem, sem_name, gen_file, host, wk, cl, nsub, consumed, polled>>

(* cv_.notify_all() *)
SdNotify ==
    /\ srv.pc = "sd_notify"
    /\ wk' = NotifyAll(srv.sd_pool)
    /\ srv' = [srv EXCEPT !.pc = "sd_join"]
    /\ ev' = NoEvent
    /\ UNCHANGED <<args, nslots, shm, shm_name, sem, sem_name, gen_file, host, pool, cl, nsub, consumed, polled>>

(* Every join has returned: shutdown returns; the string pool is next, then  *)
(* cleanup_ipc.                                                               *)
SdJoin ==
    /\ srv.pc = "sd_join"
    /\ \A w \in Workers : w[1] = srv.sd_pool => wk[w].pc = "w_exit"
    /\ srv' = IF srv.sd_pool = "math"
              THEN [srv EXCEPT !.pc = "sd_stop", !.sd_pool = "string"]
              ELSE [srv EXCEPT !.pc = "c_slot"]
    /\ ev' = NoEvent
    /\ UNCHANGED <<args, nslots, shm, shm_name, sem, sem_name, gen_file, host, pool, wk, cl,
                   nsub, consumed, polled>>

(* cleanup_ipc: sem_close and sem_unlink of one semaphore name. *)
UnlinkSem(which, next_pc) ==
    /\ sem_name' = [sem_name EXCEPT ![which] = 0]
    /\ srv' = [srv EXCEPT !.pc = next_pc]
    /\ ev' = NoEvent
    /\ UNCHANGED <<args, nslots, shm, shm_name, sem, gen_file, host, pool, wk, cl, nsub, consumed, polled>>

CleanupSlotSems == srv.pc = "c_slot" /\ UnlinkSem("slot", "c_notify")

CleanupNotifySem == srv.pc = "c_notify" /\ UnlinkSem("notify", "c_mutex")

CleanupMutexSem == srv.pc = "c_mutex" /\ UnlinkSem("mutex", "c_shm")

(* munmap, close, shm_unlink(IPC_SHM_NAME). *)
CleanupShm ==
    /\ srv.pc = "c_shm"
    /\ shm_name' = 0
    /\ srv' = [srv EXCEPT !.pc = "c_lock"]
    /\ ev' = NoEvent
    /\ UNCHANGED <<args, nslots, shm, sem, sem_name, gen_file, host, pool, wk, cl, nsub, consumed, polled>>

(* unlink(LOCK_FILE), close(g_lock_fd), return 0: the process is gone, and    *)
(* with it the pools and the flags.                                           *)
ServerExit ==
    /\ srv.pc = "c_lock"
    /\ srv' = [srv EXCEPT !.pc = "dead", !.exit_code = 0, !.running = TRUE,
                          !.status_requested = FALSE, !.i = 0, !.cmd = "ADD",
                          !.sd_pool = "math"]
    /\ wk' = [w \in Workers |-> IdleWorker]
    /\ pool' = [p \in Pools |-> [queue |-> <<>>, stop |-> FALSE]]
    /\ ev' = NoEvent
    /\ UNCHANGED <<args, nslots, shm, shm_name, sem, sem_name, gen_file, host, cl, nsub, consumed, polled>>

ServerShutdown ==
    \/ DispExit
    \/ SdStop
    \/ SdSwap
    \/ SdNotify
    \/ SdJoin
    \/ CleanupSlotSems
    \/ CleanupNotifySem
    \/ CleanupMutexSem
    \/ CleanupShm
    \/ ServerExit

(* The server of the shutdown scenario: the dispatcher and the workers with  *)
(* the pool's own synchronisation.                                            *)
PoolServerStep ==
    \/ DispWake
    \/ DispLock
    \/ DispScan
    \/ DispSubmitNotify
    \/ DispStatus
    \/ \E w \in Workers :
        \/ PoolCheck(w)
        \/ PoolBlock(w)
        \/ WorkerLock(w)
        \/ WorkerRead(w)
        \/ WorkerWrite(w)
        \/ WorkerPost(w)

(* The clients of the shutdown scenario submit asynchronously. *)
SubmitStep(c) ==
    \/ ipc_async(c)
    \/ LockAcquire(c)
    \/ LockTimeout(c)
    \/ SubmitCS(c)
    \/ SubmitNotify(c)

(* The server was started with --shutdown=drain (the default) or =immediate. *)
InitShutdown ==
    /\ nslots = NumSlots
    /\ shm = [o \in Incs |-> IF o = 1 THEN RunningRegion(1) ELSE ZeroRegion]
    /\ shm_name = 1
    /\ sem = [k \in Incs |-> IF k = 1 THEN FreshSems ELSE NoSems]
    /\ sem_name = [mutex |-> 1, notify |-> 1, slot |-> 1]
    /\ gen_file = 1
    /\ host = InitHost
    /\ \E m \in {"Drain", "Immediate"} : srv = [InitServer EXCEPT !.mode = m]
    /\ pool = [p \in Pools |-> [queue |-> <<>>, stop |-> FALSE]]
    /\ wk = [w \in Workers |-> IdleWorker]
    /\ cl = [c \in Clients |-> IdleClient(ConnectedLib(1))]
    /\ nsub = 0
    /\ consumed = {}
    /\ args = DefaultArgs
    /\ polled = {}
    /\ ev = NoEvent

NextShutdown ==
    \/ \E c \in Clients : SubmitStep(c)
    \/ PoolServerStep
    \/ SigUsr1
    \/ SigTerm
    \/ ServerShutdown

SpecShutdown == InitShutdown /\ [][NextShutdown]_vars

(* Every thread and every process that can run is scheduled: the main thread, *)
(* each worker thread, each client process.  A server thread that waits for   *)
(* the mutex gets it when it is posted again and again (strong fairness): the *)
(* clients' timed waits give up, the server's sem_wait does not.              *)
MainThread ==
    DispWake \/ DispLock \/ DispScan \/ DispSubmitNotify \/ DispStatus \/ ServerShutdown

WorkerThread(w) ==
    \/ PoolCheck(w)
    \/ PoolBlock(w)
    \/ WorkerLock(w)
    \/ WorkerRead(w)
    \/ WorkerWrite(w)
    \/ WorkerPost(w)

FairShutdown ==
    /\ SF_vars(MainThread)
    /\ \A w \in Workers : SF_vars(WorkerThread(w))
    /\ \A c \in Clients : WF_vars(SubmitStep(c))

SpecShutdownFair == SpecShutdown /\ FairShutdown

(***************************************************************************)
(* A clean shutdown followed by the start of the next server, with one     *)
(* client that submits, polls and calls ipc_init() again after a failed    *)
(* reconnect.  cleanup_ipc has unlinked every name, so between the new     *)
(* server's shm_open and its last sem_open a client's ipc_init finds the   *)
(* object but not every semaphore.                                         *)
(***************************************************************************)
DownClientStep(c) ==
    \/ ipc_async(c)
    \/ \E id \in 1 .. MaxRequests : id <= nsub /\ ipc_get_result(c, id)
    \/ LockAcquire(c)
    \/ LockTimeout(c)
    \/ SubmitCS(c)
    \/ SubmitNotify(c)
    \/ GetCS(c)
    \/ CallInit(c)

NextDown ==
    \/ DownClientStep(1)
    \/ PoolServerStep
    \/ SigUsr1
    \/ SigTerm
    \/ ServerShutdown
    \/ ServerStart

SpecDown == InitShutdown /\ [][NextDown]_vars

(***************************************************************************)
(* Properties of the semaphores and slots in one server lifetime (Spec).   *)
(***************************************************************************)
(* C24: every per-slot semaphore of the running server has the value 0 or 1. *)
SlotSemBinary ==
    \A i \in Slots : sem[srv.inc].slot[i] \in {0, 1}

(* The fields of a slot that make up a published response. *)
ResponseOf(slot) ==
    <<slot.state, slot.request_id, slot.response, slot.status>>

(* C25: a slot that is RESPONSE_READY keeps state, request id, response and  *)
(* status until the client that submitted the request consumes it: the only  *)
(* step that changes them is the return of a call of that client with the   *)
(* response, which sets the slot FREE.                                       *)
ReadyUntilOwnerConsumes ==
    [][\A i \in Slots :
          LET slot == shm[srv.shm].slots[i]
          IN  slot.state = "RESPONSE_READY"
              /\ ResponseOf(shm'[srv.shm].slots[i]) # ResponseOf(slot)
              => /\ shm'[srv.shm].slots[i] = [slot EXCEPT !.state = "FREE"]
                 /\ ev'.pid = slot.client_pid
                 /\ ev'.rc = RC_OK
                 /\ ev'.out = slot.response
      ]_vars

(***************************************************************************)
(* Properties of ipc_cleanup (SpecCleanup).                                *)
(***************************************************************************)
(* C26: a call of ipc_cleanup clears the handles and the cached generation   *)
(* of the calling process and nothing else: the names stay bound, the header *)
(* and the slots of the region and the values of the semaphores are          *)
(* unchanged, and so are the other clients and the server.                   *)
CleanupIsLocal ==
    [][\A c \in Clients :
          ev'.pid = c /\ ev'.op = "cleanup"
          => /\ cl'[c].lib = NullLib
             /\ \A d \in Clients \ {c} : cl'[d] = cl[d]
             /\ shm' = shm /\ shm_name' = shm_name
             /\ sem' = sem /\ sem_name' = sem_name
             /\ srv' = srv /\ pool' = pool /\ wk' = wk
      ]_vars

(* A client has disconnected while a request of its own is in a slot and the *)
(* other client is inside a call.                                            *)
CleanupWitness ==
    /\ ev.op = "cleanup"
    /\ \E i \in Slots :
          /\ shm[srv.shm].slots[i].state # "FREE"
          /\ shm[srv.shm].slots[i].client_pid = ev.pid
    /\ \E d \in Clients : d # ev.pid /\ cl[d].pc # "idle"

(***************************************************************************)
(* Properties of the responses to math requests (SpecMath).                *)
(***************************************************************************)
Abs(x) == IF x < 0 THEN -x ELSE x

(* The int32_t value congruent to x modulo 2^32. *)
Reduce32(x) == CHOOSE r \in Int32 : (x - r) % (2 * IntHalf) = 0

(* The integer quotient of a by b # 0, rounded toward zero. *)
TruncQuotient(a, b) ==
    CHOOSE q \in -IntHalf .. IntHalf :
        /\ Abs(q) * Abs(b) <= Abs(a)
        /\ Abs(a) - Abs(q) * Abs(b) < Abs(b)
        /\ q > 0 => (a > 0) = (b > 0)
        /\ q < 0 => (a > 0) # (b > 0)

(* C22: the response a math worker has written is the reference result of   *)
(* the request in the slot: the two's complement sum, difference or product *)
(* with status OK, DIV_BY_ZERO for a zero divisor, and otherwise the        *)
(* quotient rounded toward zero with status OK.                             *)
MathResponseIsReference ==
    \A i \in Slots :
        LET slot == shm[srv.shm].slots[i]
        IN  slot.state = "RESPONSE_READY" /\ slot.command \in MathCmds =>
              CASE slot.command = "ADD" ->
                     slot.status = "OK" /\ slot.response.num = Reduce32(slot.a + slot.b)
                [] slot.command = "SUB" ->
                     slot.status = "OK" /\ slot.response.num = Reduce32(slot.a - slot.b)
                [] slot.command = "MUL" ->
                     slot.status = "OK" /\ slot.response.num = Reduce32(slot.a * slot.b)
                [] slot.command = "DIV" /\ slot.b = 0 -> slot.status = "DIV_BY_ZERO"
                [] slot.command = "DIV" /\ slot.b # 0 ->
                     slot.status = "OK" /\ slot.response.num = TruncQuotient(slot.a, slot.b)

(* The client that filled slot i has posted the notify semaphore for it. *)
Published(i) ==
    /\ shm[srv.shm].slots[i].state = "REQUEST_PENDING"
    /\ \A c \in Clients : ~(cl[c].pc = "sub_notify" /\ cl[c].slot_idx = i)

(* C21: with the server left running, every request that has been published  *)
(* (slot REQUEST_PENDING, notify posted) reaches RESPONSE_READY, whatever the *)
(* command and the operands.                                                  *)
PublishedRequestIsAnswered ==
    \A i \in AllSlots :
        (i \in Slots /\ Published(i))
        ~> (i \in Slots /\ shm[srv.shm].slots[i].state = "RESPONSE_READY")

(***************************************************************************)
(* Properties of the responses to SEARCH requests (SpecSearch).            *)
(***************************************************************************)
(* needle is the part of haystack that starts at the 0-based index i. *)
Occurs(haystack, needle, i) ==
    /\ i + Len(needle) <= Len(haystack)
    /\ SubSeq(haystack, i + 1, i + Len(needle)) = needle

(* C23: the response a string worker has written to a SEARCH request is      *)
(* status OK with position i exactly when i is the least index at which the  *)
(* needle occurs in the haystack, and NOT_FOUND with position -1 exactly     *)
(* when it occurs nowhere.                                                   *)
SearchFindsLeastIndex ==
    \A k \in Slots :
        LET slot == shm[srv.shm].slots[k]
            h == slot.s1
            n == slot.s2
        IN  slot.state = "RESPONSE_READY" /\ slot.command = "SEARCH" =>
              /\ \A i \in 0 .. Len(h) :
                    (slot.status = "OK" /\ slot.response.num = i)
                    <=> (Occurs(h, n, i) /\ \A j \in 0 .. i - 1 : ~Occurs(h, n, j))
              /\ (slot.status = "NOT_FOUND" /\ slot.response.num = -1)
                    <=> (\A i \in 0 .. Len(h) : ~Occurs(h, n, i))
              /\ slot.status \in {"OK", "NOT_FOUND"}
              /\ slot.response.num \in -1 .. Len(h)

(* A needle found at the last index of a haystack of the full length. *)
SearchWitness ==
    \E k \in Slots :
        LET slot == shm[srv.shm].slots[k]
        IN  /\ slot.state = "RESPONSE_READY" /\ slot.command = "SEARCH"
            /\ Len(slot.s1) = IPC_MAX_STRING_LEN
            /\ slot.status = "OK"
            /\ slot.response.num = IPC_MAX_STRING_LEN - 1

(* C27: a successful submission reserves the lowest-index slot that is FREE  *)
(* when the client scans under the mutex: the slot it writes was FREE, no    *)
(* slot of lower index was FREE, and the slots of higher index are left      *)
(* unchanged.                                                                *)
LowestFreeSlotReserved ==
    [][\A c \in Clients :
          (cl[c].pc = "sub_cs" /\ cl'[c].pc = "sub_notify") =>
              LET o == cl[c].lib.shm
                  idx == cl'[c].slot_idx
              IN  /\ idx \in Slots
                  /\ shm[o].slots[idx].state = "FREE"
                  /\ shm'[o].slots[idx].state = "REQUEST_PENDING"
                  /\ shm'[o].slots[idx].request_id = cl'[c].id
                  /\ \A j \in Slots : j < idx => shm[o].slots[j].state # "FREE"
                  /\ \A j \in Slots : j > idx => shm'[o].slots[j] = shm[o].slots[j]]_vars

(* The third request is written to slot 0 while slot 1, used before, is FREE *)
(* again: both slots are FREE and the scan takes the lower one.              *)
LowestFreeSlotWitness ==
    /\ nslots > 1
    /\ \E c \in Clients :
          /\ cl[c].pc = "sub_notify"
          /\ cl[c].id = MaxSlotRequests
          /\ cl[c].slot_idx = 0
          /\ shm[cl[c].lib.shm].slots[1].state = "FREE"
          /\ shm[cl[c].lib.shm].slots[1].request_id # 0

(* The positions of blocking_math's wait loop. *)
BlockingLoopPcs == {"blk_wait", "blk_lock", "blk_cs"}

(* The clients that leave submit_request's sem_post(g_server_sem) in this step. *)
NotifyPosters == {c \in Clients : cl[c].pc = "sub_notify" /\ cl'[c].pc # "sub_notify"}

(* C28: each successful submission posts the notify semaphore exactly once,   *)
(* only after the slot has been set to REQUEST_PENDING with request id, pid,  *)
(* command and payload and the mutex has been released: the post is reached   *)
(* only from the critical section that wrote the slot and released the mutex, *)
(* it adds one to the semaphore, nothing else of a client posts it, and the   *)
(* submission returns or starts to wait only with the post made.              *)
NotifyOncePerSubmission ==
    [][/\ \A c \in Clients :
             (cl[c].pc # "sub_notify" /\ cl'[c].pc = "sub_notify") =>
                 LET slot == shm'[cl[c].lib.shm].slots[cl'[c].slot_idx]
                 IN  /\ cl[c].pc = "sub_cs"
                     /\ slot.state = "REQUEST_PENDING"
                     /\ slot.request_id = cl'[c].id
                     /\ slot.client_pid = c
                     /\ slot.command = cl[c].cmd
                     /\ cl[c].cmd \in MathCmds => slot.a = args[c].a /\ slot.b = args[c].b
                     /\ cl[c].cmd \in StringCmds =>
                            slot.s1 = args[c].s1 /\ slot.s2 = args[c].s2
                     /\ ClientProc(c) \in sem[cl[c].lib.mutex].holders
                     /\ ClientProc(c) \notin sem'[cl[c].lib.mutex].holders
                     /\ sem'[cl[c].lib.notify].notify = sem[cl[c].lib.notify].notify
       /\ \A c \in NotifyPosters :
             /\ sem'[cl[c].lib.notify].notify = sem[cl[c].lib.notify].notify + 1
             /\ ClientProc(c) \notin sem[cl[c].lib.mutex].holders
             /\ shm' = shm
       /\ (\E k \in Incs : sem'[k].notify > sem[k].notify) => NotifyPosters # {}
       /\ \A c \in Clients :
             (cl[c].pc \notin BlockingLoopPcs /\ cl'[c].pc \in BlockingLoopPcs)
                 => c \in NotifyPosters
       /\ (ev'.op = "async" /\ ev'.rc = RC_OK /\ ev' # ev) => ev'.pid \in NotifyPosters
      ]_vars

(* An asynchronous submission has returned 0: its request is REQUEST_PENDING *)
(* in the slot, the mutex is free and the one post is on the semaphore.      *)
NotifyOnceWitness ==
    /\ ev.op = "async" /\ ev.rc = RC_OK
    /\ sem[srv.inc].notify = 1
    /\ sem[srv.inc].mutex = 1
    /\ \E i \in Slots :
          /\ shm[srv.shm].slots[i].state = "REQUEST_PENDING"
          /\ shm[srv.shm].slots[i].request_id = ev.id
          /\ shm[srv.shm].slots[i].client_pid = ev.pid

(* The workers that make the sem_post(g_slot_sems[slot_idx]) of slot i in this step. *)
SlotPosters(i) ==
    {w \in Workers : wk[w].pc = "w_post" /\ wk[w].slot_idx = i /\ wk'[w].pc # "w_post"}

TimesQueued(p, i) == Cardinality({n \in 1 .. Len(pool[p].queue) : pool[p].queue[n] = i})

(* The workers that have popped index i and not yet published its response. *)
Handling(i) ==
    {w \in Workers : wk[w].slot_idx = i /\ wk[w].pc \in {"w_lock1", "w_read", "w_lock2", "w_write"}}

(* The places index i is at on its way from the dispatcher to a handler: in   *)
(* the dispatcher's hand before submit, in a queue, with a worker.            *)
Dispatched(i) ==
    (IF srv.pc = "d_submit" /\ srv.i = i THEN 1 ELSE 0)
    + TimesQueued("math", i) + TimesQueued("string", i)
    + Cardinality(Handling(i))

ClientActsInOwnGeneration ==
    [][\A c \in Clients :
          LET o == cl[c].lib.shm
          IN  /\ ((cl[c].pc = "sub_cs" /\ cl'[c].pc = "sub_notify")
                   \/ (cl[c].pc \in {"blk_cs", "get_cs"} /\ shm'[o] # shm[o]))
                  => shm[o].server_generation = cl[c].lib.gen
              /\ cl[c].pc \in {"sub_stale", "get_stale"} /\ cl'[c] # cl[c]
                  => /\ shm' = shm
                     /\ ClientProc(c) \notin sem'[cl[c].lib.mutex].holders
                     /\ ev'.pid = c
                     /\ ev'.rc \in {IPC_ERR_SERVER_RESTARTED, RC_ERR}]_vars

(* C33: every library call returns.  The mutex acquisition gives up within   *)
(* its budget of timeouts and the blocking wait loop within its budget of     *)
(* iterations (stale wakes and timeouts counted together), each with a forced *)
(* reconnect and a return of RESTARTED or -1; no call blocks forever, also    *)
(* when the server never answers or the mutex is never released.              *)
EveryCallReturns ==
    /\ [](\A c \in Clients : /\ cl[c].mretries < MaxMutexRetries
                              /\ cl[c].retries < MaxSlotWaitRetries)
    /\ [][\A c \in Clients :
             (\/ cl[c].pc \in LockPcs /\ cl[c].mretries + 1 = MaxMutexRetries
                    /\ cl'[c].mretries # cl[c].mretries
              \/ cl[c].pc \in {"blk_wait", "blk_cs"}
                    /\ cl[c].retries + 1 = MaxSlotWaitRetries
                    /\ cl'[c].pc \notin {"blk_lock", cl[c].pc})
             => /\ cl'[c].pc = "idle"
                /\ ev'.pid = c
                /\ (ev'.rc \in {IPC_ERR_SERVER_RESTARTED, RC_ERR}
                     \/ (cl[c].pc = "blk_cs" /\ shm' # shm))]_vars
    /\ \A c \in Clients : (cl[c].pc # "idle") ~> (cl[c].pc = "idle")

(* The server is dead and has not been started again; a blocking call has     *)
(* used up its budget and returned RESTARTED after the forced reconnect.      *)
EveryCallReturnsWitness ==
    /\ srv.pc = "dead"
    /\ gen_file = 1
    /\ ev.op = "blocking"
    /\ ev.rc = IPC_ERR_SERVER_RESTARTED
    /\ cl[ev.pid].pc = "idle"

(* C34: in the client wrapper, after a server restart is detected every      *)
(* pending request is re-submitted under a fresh id of the new generation or  *)
(* dropped, and no pending entry is polled with an id issued under an older   *)
(* generation: whenever check_pending is inside ipc_get_result for an entry,  *)
(* the entry's id was returned under the generation the library is connected  *)
(* to.                                                                        *)
PendingPolledWithCurrentId ==
    \A c \in Clients :
        (cl[c].app.pc = "check" /\ cl[c].op = "get" /\ cl[c].pc # "idle")
            => cl[c].app.pending[cl[c].app.it].gen = cl[c].lib.gen

(* Slot i holds a request of a blocking call of client c that has returned:  *)
(* the slot is not FREE and c is not inside the call that reserved it.        *)
Abandoned(c, i) ==
    LET slot == shm[srv.shm].slots[i]
    IN  /\ slot.state # "FREE"
        /\ slot.client_pid = c
        /\ slot.command \in BlockingCmds
        /\ ~(cl[c].op = "blocking" /\ cl[c].id = slot.request_id
              /\ cl[c].pc \in {"sub_notify"} \cup BlockingLoopPcs)

(* C35: a blocking call never leaks its slot: when ipc_add has returned while *)
(* the server that accepted the request is running in the same generation,    *)
(* the slot it reserved is FREE or is eventually returned to FREE.            *)
BlockingSlotNeverLeaks ==
    \A c \in Clients : \A i \in AllSlots :
        (i \in Slots /\ Abandoned(c, i))
        ~> (i \in Slots /\ shm[srv.shm].slots[i].state = "FREE")

DisconnectedCallsFail ==
    [][\A c \in Clients :
         /\ (cl[c].lib.shm = 0) => (cl[c].lib = NullLib /\ cl[c].pc = "idle")
         /\ (cl[c].lib.shm # 0 /\ cl'[c].lib.shm = 0)
                => /\ cl'[c].lib = NullLib
                   /\ cl'[c].pc = "idle"
                   /\ ev'.pid = c
                   /\ (ev'.op = "cleanup" \/ ev'.rc = RC_ERR)
         /\ (cl[c].lib.shm = 0 /\ (cl'[c] # cl[c] \/ ev'.pid = c))
                => /\ ev'.pid = c
                   /\ \/ ev'.op = "init" /\ (ev'.rc = RC_OK <=> cl'[c].lib.shm # 0)
                      \/ ev'.op = "cleanup" /\ cl'[c].lib = NullLib
                      \/ /\ ev'.rc = RC_ERR
                         /\ cl'[c].lib = NullLib
                         /\ shm' = shm
                         /\ sem' = sem
                         /\ shm_name' = shm_name
                         /\ sem_name' = sem_name
    ]_vars

(* A call has just returned -1 to a client that lost its connection while  *)
(* the next server is between its shm_open and its last sem_open.          *)
DisconnectedCallWitness ==
    /\ cl[1].lib = NullLib
    /\ ev.pid = 1
    /\ ev.op \in {"get", "async"}
    /\ ev.rc = RC_ERR
    /\ srv.pc \in {"s_zero", "s_header", "s_sem_mutex", "s_sem_notify", "s_sem_slot"}

(***************************************************************************)
(* Properties of a submission that fails (SpecRestart).                    *)
(***************************************************************************)
(* Where a client is inside submit_request before the slot is written. *)
BeforeSlotWrite == {"idle", "sub_lock", "sub_cs", "sub_stale"}

(* C38: a submission that does not return 0 changes nothing in the shared  *)
(* region: the step that returns leaves every region and every notify      *)
(* semaphore as they were and the caller holds no mutex afterwards, a      *)
(* mutex it held is free again; and no earlier step of a submission writes *)
(* the region or posts the notify semaphore unless the submission goes on  *)
(* to return 0.                                                            *)
FailedSubmissionWritesNothing ==
    [][\A c \in Clients :
         /\ (/\ cl[c].pc \in BeforeSlotWrite
             /\ ev'.pid = c
             /\ ev'.op \in {"blocking", "async"}
             /\ ev'.rc # RC_OK)
                => /\ shm' = shm
                   /\ \A k \in Incs :
                        /\ sem'[k].notify = sem[k].notify
                        /\ sem'[k].slot = sem[k].slot
                        /\ ClientProc(c) \notin sem'[k].holders
                        /\ (ClientProc(c) \in sem[k].holders) => (sem'[k].mutex = 1)
                        /\ (ClientProc(c) \notin sem[k].holders)
                                => (sem'[k].mutex = sem[k].mutex)
         /\ (/\ cl[c].pc \in BeforeSlotWrite
             /\ cl[c].op \in {"blocking", "async", "none"}
             /\ cl'[c] # cl[c]
             /\ \/ shm' # shm
                \/ \E k \in Incs : sem'[k].notify # sem[k].notify)
                => (cl[c].pc = "sub_cs" /\ cl'[c].pc = "sub_notify")
         /\ (cl[c].pc = "sub_notify" /\ cl'[c] # cl[c])
                => (ev'.pid = c => ev'.rc = RC_OK)
    ]_vars

(* The second client has just been told that no slot is free, after it had *)
(* taken the mutex: the slot is the first client's, the mutex is free.     *)
FailedSubmissionWitness ==
    /\ ev.pid = 2
    /\ ev.op = "blocking"
    /\ ev.rc = RC_ERR
    /\ cl[2].lib.shm # 0
    /\ shm[cl[2].lib.shm].slots[0].client_pid = 1
    /\ shm[cl[2].lib.shm].slots[0].state # "FREE"
    /\ sem[cl[2].lib.mutex].mutex = 1

(***************************************************************************)
(* Properties of the requests accepted before a drain (SpecShutdown).      *)
(***************************************************************************)
(* The submission that wrote slot i of the region has returned 0: its      *)
(* caller is no longer between the slot write and the notify post.         *)
Accepted(o, i) ==
    LET slot == shm[o].slots[i]
    IN  /\ slot.request_id # 0
        /\ \A c \in Clients :
              ~(/\ cl[c].pc = "sub_notify"
                /\ cl[c].lib.shm = o
                /\ cl[c].slot_idx = i
                /\ cl[c].id = slot.request_id)

(* C39: in drain mode, when the server is about to unlink the shared       *)
(* objects (every worker joined, cleanup_ipc not yet started), no request  *)
(* whose submission returned 0 is still REQUEST_PENDING or PROCESSING.     *)
DrainAnswersEveryAccepted ==
    (srv.mode = "Drain" /\ srv.pc = "c_slot")
        => \A i \in Slots :
             (shm[srv.shm].slots[i].state \in {"REQUEST_PENDING", "PROCESSING"})
                => ~Accepted(srv.shm, i)

(***************************************************************************)
(* Properties of ipc_init against a starting server (SpecRestart).         *)
(***************************************************************************)
(* C40: the generation a connected client has cached is the generation of  *)
(* the server whose semaphores it has opened: it is never the 0 of a       *)
(* region that is being initialised, its three kinds of handle belong to   *)
(* one server, and it is the latest server's generation exactly when the   *)
(* handles are to the latest server's semaphores.                          *)
CachedGenerationIsOfOpenedSemaphores ==
    \A c \in Clients :
        (cl[c].lib.shm # 0)
            => /\ cl[c].lib.gen # 0
               /\ cl[c].lib.mutex = cl[c].lib.notify
               /\ cl[c].lib.notify = cl[c].lib.slotsem
               /\ (cl[c].lib.gen = srv.gen) <=> (cl[c].lib.mutex = srv.inc)

(***************************************************************************)
(* Properties of the client's recovery after a restart (SpecRecover).      *)
(***************************************************************************)
(* The new generation's header is in place. *)
Restarted == srv.inc > 1 /\ shm[srv.shm].server_generation = srv.gen

(* C11: once the region carries the new generation, the first call of        *)
(* ipc_get_result a client makes with an id issued before the restart        *)
(* returns IPC_ERR_SERVER_RESTARTED.                                         *)
StaleIdPollReturnsRestarted ==
    [][\A c \in Clients :
          /\ Restarted
          /\ ev'.pid = c /\ ev'.op = "get"
          /\ ev'.id <= srv.old_ids
          /\ <<c, ev'.id>> \notin polled
          => ev'.rc = IPC_ERR_SERVER_RESTARTED
      ]_vars

(* The server has been restarted and no further crash follows. *)
StaysUp == Restarted /\ srv.inc = MaxInc

(* Client c has been through reconnect_after_server_restart: it caches the  *)
(* generation of the running server.                                       *)
Recovered(c) == cl[c].lib.shm = srv.shm /\ cl[c].lib.gen = srv.gen

(* C12: after a restart the client recovers by itself: with the new server  *)
(* up, a request the reconnected client has published in a slot is taken up *)
(* and answered by that server.                                            *)
RecoveredClientIsServed ==
    \A i \in AllSlots :
        (i \in Slots /\ StaysUp /\ Recovered(1)
           /\ shm[srv.shm].slots[i].state = "REQUEST_PENDING"
           /\ shm[srv.shm].slots[i].client_pid = 1)
        ~> (i \in Slots /\ shm[srv.shm].slots[i].state \in {"RESPONSE_READY", "FREE"})

(***************************************************************************)
(* Properties of the argument checks (SpecValidate).                       *)
(***************************************************************************)
BadString(s) == s.null \/ Len(s.chars) = 0 \/ Len(s.chars) > 16

Untouched(c) ==
    /\ ev'.pid = c /\ ev'.rc = RC_ERR
    /\ cl'[c].pc = "idle"
    /\ cl'[c].lib = cl[c].lib
    /\ UNCHANGED <<args, nslots, shm, shm_name, sem, sem_name, nsub>>

(* C20: an async string call with a null, empty or over-long string, and any *)
(* async call with a null request_id pointer, returns -1 in one step that    *)
(* changes neither the region nor a semaphore nor the library's connection.  *)
InvalidAsyncCallUntouched ==
    [][\A c \in Clients :
          /\ \A s \in StringArgs(c), request_id \in Ptrs :
                /\ cl[c].pc = "idle"
                /\ BadString(s[1]) \/ BadString(s[2]) \/ request_id = 0
                /\ async_string(c, "CONCAT", s[1], s[2], request_id)
                => Untouched(c)
          /\ async_math(c, "MUL", 0) => Untouched(c)
      ]_vars

(* An async call has returned -1 although the client's region has a free     *)
(* slot, and the region has been re-initialised since the client connected:  *)
(* the call was rejected for its arguments, and no reconnect was made.       *)
InvalidAsyncWitness ==
    /\ ev.op = "async" /\ ev.rc = RC_ERR
    /\ \E c \in Clients :
          /\ ev.pid = c
          /\ cl[c].lib.shm # 0
          /\ find_free_slot(shm[cl[c].lib.shm]) >= 0
          /\ shm[cl[c].lib.shm].server_generation # cl[c].lib.gen

(***************************************************************************)
(* Properties of the singleton lock and the generation (SpecSingleton).    *)
(***************************************************************************)
PastLock == {p \in Servers : host.proc[p].pc \in {"locked", "running"}}

(* C13: at no time are two server processes past the singleton lock, setting *)
(* up or serving the shared region.                                          *)
SingleServerPastLock == Cardinality(PastLock) <= 1

(* C14: a start whose flock is refused because another process holds the     *)
(* lock returns 1 and changes nothing: region, names, semaphores, lock file, *)
(* its flock and the generation file are as before.                          *)
FailedStartChangesNothing ==
    [][\A p \in Servers :
          /\ host.proc[p].pc = "opened"
          /\ host.flock[host.proc[p].fd] # 0
          /\ host'.proc[p] # host.proc[p]
          => /\ host'.proc[p].pc = "failed"
             /\ host'.proc[p].exit_code = 1
             /\ host'.lock_name = host.lock_name
             /\ host'.flock = host.flock
             /\ host'.inodes = host.inodes
             /\ \A q \in Servers \ {p} : host'.proc[q] = host.proc[q]
             /\ UNCHANGED <<shm, shm_name, sem, sem_name, gen_file>>
      ]_vars

(* A start has been refused while another server runs. *)
FailedStartWitness ==
    \E p \in Servers :
        /\ host.proc[p].pc = "failed"
        /\ host.proc[p].exit_code = 1
        /\ \E q \in Servers \ {p} : host.proc[q].pc = "running"

CleanupPcs == {"c_slot", "c_notify", "c_mutex", "c_shm", "c_lock"}

ShutdownPcs == {"sd_stop", "sd_swap", "sd_notify", "sd_join"}

Processing == {i \in Slots : shm[srv.shm].slots[i].state = "PROCESSING"}

InQueue(p, i) == \E n \in 1 .. Len(pool[p].queue) : pool[p].queue[n] = i

(* C16: in drain mode no queued index is dropped: a worker returns only      *)
(* with its pool's queue empty, and when main gets to cleanup_ipc every      *)
(* worker has returned, both queues are empty and no slot is left            *)
(* PROCESSING: each claimed slot is RESPONSE_READY with its semaphore        *)
(* posted.                                                                   *)
DrainHandlesEveryQueuedIndex ==
    srv.mode = "Drain" =>
        /\ \A w \in Workers : wk[w].pc = "w_exit" => pool[w[1]].queue = <<>>
        /\ srv.pc \in CleanupPcs =>
              /\ \A w \in Workers : wk[w].pc = "w_exit"
              /\ \A p \in Pools : pool[p].queue = <<>>
              /\ \A i \in Slots :
                    /\ shm[srv.shm].slots[i].state # "PROCESSING"
                    /\ shm[srv.shm].slots[i].state = "RESPONSE_READY" =>
                          sem[srv.inc].slot[i] > 0

(* Drain shutdown of a pool has set stop_ while an index is still queued. *)
DrainWitness ==
    /\ srv.mode = "Drain"
    /\ srv.pc \in {"sd_notify", "sd_join"}
    /\ pool[srv.sd_pool].stop
    /\ pool[srv.sd_pool].queue # <<>>

(* C17: once shutdown(Drain) of a pool is called it returns: main leaves the *)
(* join loop of that pool.                                                   *)
DrainShutdownTerminates ==
    \A p \in Pools :
        (srv.mode = "Drain" /\ srv.pc = "sd_stop" /\ srv.sd_pool = p)
            ~> (srv.pc \notin ShutdownPcs \/ srv.sd_pool # p)

(* C18: shutdown(Immediate) returns the number of indices it removed from    *)
(* the queue, no worker takes an index after the queue was emptied, and at   *)
(* cleanup_ipc exactly the removed indices' slots are left PROCESSING.       *)
ImmediateDiscardsQueued ==
    [][srv.mode = "Immediate" =>
          /\ srv.pc = "sd_swap" /\ srv'.pc # "sd_swap" =>
                /\ srv'.discarded[srv.sd_pool] = Len(pool[srv.sd_pool].queue)
                /\ pool'[srv.sd_pool].queue = <<>>
                /\ \A i \in Slots : InQueue(srv.sd_pool, i) =>
                      shm[srv.shm].slots[i].state = "PROCESSING"
          /\ (srv.pc \in {"sd_notify", "sd_join"} \/ srv.sd_pool = "string") =>
                \A w \in Workers : w[1] = "math" /\ wk[w].pc # wk'[w].pc =>
                      wk'[w].pc # "w_lock1"
          /\ srv.pc \in {"sd_notify", "sd_join"} /\ srv.sd_pool = "string" =>
                \A w \in Workers : w[1] = "string" /\ wk[w].pc # wk'[w].pc =>
                      wk'[w].pc # "w_lock1"
          /\ srv'.pc \in CleanupPcs =>
                /\ \A w \in Workers : wk'[w].pc = "w_exit"
                /\ Cardinality({i \in Slots :
                                  shm'[srv.shm].slots[i].state = "PROCESSING"})
                      = srv'.discarded["math"] + srv'.discarded["string"]
      ]_vars

(* shutdown(Immediate) of a pool returns: the swap is made under the pool    *)
(* mutex, so no worker is between its predicate and its wait at notify_all.  *)
ImmediateShutdownTerminates ==
    \A p \in Pools :
        (srv.mode = "Immediate" /\ srv.pc = "sd_stop" /\ srv.sd_pool = p)
            ~> (srv.pc \notin ShutdownPcs \/ srv.sd_pool # p)

(* Immediate shutdown has removed a queued index and main has gone on to     *)
(* cleanup_ipc.                                                              *)
ImmediateWitness ==
    /\ srv.mode = "Immediate"
    /\ srv.pc = "c_slot"
    /\ srv.discarded["math"] + srv.discarded["string"] > 0
    /\ Processing # {}

(* C19: after SIGINT / SIGTERM the server ends: the names are unlinked and   *)
(* main returns 0.                                                           *)
SigTermLeadsToExit ==
    (srv.terms > 0) ~>
        (/\ srv.pc = "dead"
         /\ srv.exit_code = 0
         /\ shm_name = 0
         /\ sem_name = [mutex |-> 0, notify |-> 0, slot |-> 0])

(***************************************************************************)
(* Properties of one server lifetime (Spec).                               *)
(***************************************************************************)
SlotOf(c) == shm[cl[c].lib.shm].slots[cl[c].slot_idx]

SlotChanged(o, i, from, to) ==
    shm[o].slots[i].state = from /\ shm'[o].slots[i].state = to

InCriticalSection ==
    {ClientProc(c) : c \in {d \in Clients :
        cl[d].pc \in {"sub_cs", "sub_stale", "get_cs", "get_stale", "blk_cs"}}}
    \cup (IF srv.pc \in {"d_scan", "d_status_scan"} THEN {Dispatcher} ELSE {})
    \cup {w \in Workers : wk[w].pc \in {"w_read", "w_write"}}

(* C3: the mutex is 0 or 1; at most one process is between a successful wait *)
(* on it and its post; the value is 0 exactly while such a process exists,   *)
(* so every acquirer posts once and nobody posts without having acquired.    *)
MutexBinaryExclusive ==
    LET k == sem_name.mutex
    IN  /\ sem[k].mutex \in {0, 1}
        /\ Cardinality(InCriticalSection) <= 1
        /\ sem[k].holders = InCriticalSection
        /\ sem[k].mutex + Cardinality(sem[k].holders) = 1

(* The processes waiting on the notify semaphore, on a per-slot semaphore or *)
(* on a pool's mutex / condition variable.                                   *)
WaitingElsewhere ==
    {ClientProc(c) : c \in {d \in Clients : cl[d].pc = "blk_wait"}}
    \cup (IF srv.pc \in {"d_wait", "d_submit"} THEN {Dispatcher} ELSE {})
    \cup {w \in Workers : wk[w].pc = "w_idle"}

(* C4: no process that holds the mutex waits on the notify semaphore, on a   *)
(* per-slot semaphore or on a pool's mutex / condition variable.             *)
NoWaitWhileHolding ==
    \A k \in Incs : sem[k].holders \cap WaitingElsewhere = {}

(* Somebody holds the mutex while a client waits on its slot semaphore and   *)
(* the dispatcher waits on the notify semaphore.                             *)
NoWaitWhileHoldingWitness ==
    /\ sem[1].holders # {}
    /\ \E c \in Clients : cl[c].pc = "blk_wait"
    /\ srv.pc = "d_wait"

ResponseFor(slot) ==
    IF slot.command \in MathCmds
    THEN [num |-> Wrap32(IF slot.command = "ADD" THEN slot.a + slot.b
                         ELSE IF slot.command = "SUB" THEN slot.a - slot.b
                         ELSE slot.a * slot.b),
          str |-> <<>>]
    ELSE [num |-> 0, str |-> slot.s1 \o slot.s2]

PollAfterReadyNotFound ==
    [][(/\ ev'.op = "get"
        /\ ev'.rc # IPC_ERR_SERVER_RESTARTED
        /\ <<shm[cl[ev'.pid].lib.shm].server_generation, ev'.id>> \in consumed)
          => ev'.rc = RC_ERR]_vars

(* C10 as stated: a blocking call woken by a post of its slot semaphore      *)
(* returns to its caller only when the slot holds its own request id in      *)
(* RESPONSE_READY.                                                           *)
BlockingReturnsOnlyWithResponse ==
    [][\A c \in Clients :
          (cl[c].pc = "blk_cs" /\ cl'[c].pc = "idle") =>
              /\ SlotOf(c).request_id = cl[c].id
              /\ SlotOf(c).state = "RESPONSE_READY"]_vars

(* C10, amended: a blocking call returns 0 only from a wake at which the     *)
(* slot holds its own request id in RESPONSE_READY; a wake without that      *)
(* (a stale post) uses up one retry of the wait loop: the call goes back to  *)
(* waiting while retries remain and returns the reconnect result, not 0,     *)
(* when they are used up.                                                    *)
BlockingSuccessOnlyWithResponse ==
    [][\A c \in Clients :
          /\ (cl[c].op = "blocking" /\ ev'.pid = c /\ ev'.rc = RC_OK) =>
                /\ cl[c].pc = "blk_cs"
                /\ SlotOf(c).request_id = cl[c].id
                /\ SlotOf(c).state = "RESPONSE_READY"
          /\ (/\ cl[c].pc = "blk_cs" /\ cl'[c] # cl[c]
              /\ ~(SlotOf(c).request_id = cl[c].id
                   /\ SlotOf(c).state = "RESPONSE_READY")) =>
                IF cl[c].retries + 1 < MaxSlotWaitRetries
                THEN cl'[c].pc = "blk_wait" /\ ev' = NoEvent
                ELSE ev'.pid = c /\ ev'.rc \in {IPC_ERR_SERVER_RESTARTED, RC_ERR}]_vars

(* A blocking call has been woken by a stale post: its own response is not   *)
(* there and retries remain.                                                 *)
StaleWakeWitness ==
    \E c \in Clients :
        /\ cl[c].pc = "blk_cs"
        /\ SlotOf(c).state # "RESPONSE_READY"
        /\ cl[c].retries + 1 < MaxSlotWaitRetries

(***************************************************************************)
(* Properties across a server restart (SpecRestart).                       *)
(***************************************************************************)
(* C2: every step that changes a slot's state is made by a process that      *)
(* holds the mutex when it writes (and posts it in the same critical         *)
(* section), the reset of the slots at server start included.                *)
SlotWritesUnderMutex ==
    [][\A o \in Incs, i \in Slots :
          shm'[o].slots[i].state # shm[o].slots[i].state =>
              \E k \in Incs : \E p \in sem[k].holders : p \notin sem'[k].holders]_vars

(* C9: a blocking ADD of client c that returns 0 stores the sum of c's own   *)
(* operands, the response to its own request.                                *)
BlockingDeliversOwnResponse ==
    (ev.op = "blocking" /\ ev.rc = RC_OK) =>
        ev.out.num = Wrap32(OperandA(ev.pid) + OperandB(ev.pid))

====
